---- MODULE Spec2Model ----
(***************************************************************************)
(* Model of the LRU dict of src/lru.c (a Python dict mapping key -> Node   *)
(* plus an intrusive doubly linked list of the Nodes, guarded by one lock, *)
(* with evicted pairs staged in a list and handed to the callback outside  *)
(* the critical section).                                                  *)
(*                                                                         *)
(* A Node is identified by its key: the dict holds at most one Node per    *)
(* key, so dict is the set of keys whose Node it maps, and node[k] holds   *)
(* the fields value/prev/next of the Node of key k.  A Node that is in     *)
(* neither structure is freed; its fields are then zero.                   *)
(***************************************************************************)
EXTENDS Integers, Sequences, FiniteSets, Bags, TLC

\* ---------------------------------------------------------------- bounds
\* keys are 1..MaxKey; values are None and 1..MaxVal; LRU(size) and
\* set_size(size) are called with size up to MaxSize; at most MaxLookups
\* lookups are counted between two clear(); update() is called with at most
\* MaxUpd pairs in all; the model of _lru.c has keys 1..InlineMaxKey and
\* sizes up to InlineMaxSize
MaxKey == 4
MaxVal == 1
MaxSize == 3
MaxLookups == 2
MaxUpd == 2
NumThreads == 2
MaxHist == 2
InlineMaxKey == 3
InlineMaxSize == 2

\* ------------------------------------------------------------- constants
NULL == 0
Py_None == 0 - 1
Callable == 1
NonCallable == 2
Py_False == 0
Py_True == 1

Keys == 1..MaxKey
Vals == {Py_None} \cup (1..MaxVal)
Threads == 1..NumThreads
MainThread == 1

\* the (key, value) pairs a caller can pass
Pairs == Keys \X Vals
\* a Python dict argument: pairs in iteration order, keys distinct
RECURSIVE DictArgsOfLen(_)
DictArgsOfLen(n) ==
    IF n = 0 THEN {<<>>}
    ELSE {Append(d, p) : d \in DictArgsOfLen(n - 1), p \in Pairs}
DistinctKeys(d) == \A i, j \in 1..Len(d) : i # j => d[i][1] # d[j][1]
DictArgs == {d \in UNION {DictArgsOfLen(n) : n \in 0..MaxUpd} : DistinctKeys(d)}

VARIABLES lru, alive, lock, th, cblog
vars == <<lru, alive, lock, th, cblog>>

\* ------------------------------------------------------------------ Node
FreeNode == [value |-> NULL, prev |-> NULL, next |-> NULL]

\* the LRU struct as tp_alloc leaves it (all fields zero).  Two history
\* fields are kept with it: evicted, the pairs lru_delete_last has removed
\* during the operation in progress, in order of removal; and lastput, for
\* each key the dict holds, the value of the latest assignment to that key
ZeroLRU ==
    [dict |-> {}, node |-> [k \in Keys |-> FreeNode], first |-> NULL,
     last |-> NULL, size |-> 0, hits |-> 0, misses |-> 0, callback |-> NULL,
     staging_list |-> <<>>, evicted |-> <<>>, lastput |-> [k \in Keys |-> NULL]]

GET_NODE(d, key) == IF key \in d THEN key ELSE NULL

\* lru_remove_node without node->next->prev = node->prev
lru_remove_node_one_way(self, n) ==
    LET p == self.node[n].prev
        x == self.node[n].next
    IN [self EXCEPT
          !.first = IF self.first = n THEN x ELSE self.first,
          !.last = IF self.last = n THEN p ELSE self.last,
          !.node = [k \in DOMAIN self.node |->
                      IF k = n THEN [self.node[k] EXCEPT !.prev = NULL, !.next = NULL]
                      ELSE [self.node[k] EXCEPT
                              !.next = IF k = p THEN x ELSE @]]]

lru_remove_node(self, n) ==
    LET p == self.node[n].prev
        x == self.node[n].next
    IN [self EXCEPT
          !.first = IF self.first = n THEN x ELSE self.first,
          !.last = IF self.last = n THEN p ELSE self.last,
          !.node = [k \in DOMAIN self.node |->
                      IF k = n THEN [self.node[k] EXCEPT !.prev = NULL, !.next = NULL]
                      ELSE [self.node[k] EXCEPT
                              !.next = IF k = p THEN x ELSE @,
                              !.prev = IF k = x THEN p ELSE @]]]

\* node->prev = NULL comes first, so that a Node that is already first ends
\* up with itself as its next and its prev
lru_add_node_at_head(self, n) ==
    IF self.first = NULL
    THEN [self EXCEPT !.first = n, !.last = n,
                      !.node[n].prev = NULL, !.node[n].next = NULL]
    ELSE [self EXCEPT !.first = n,
                      !.node = [k \in DOMAIN self.node |->
                                  IF k = n THEN [self.node[k] EXCEPT
                                                   !.prev = IF self.first = n THEN n ELSE NULL,
                                                   !.next = self.first]
                                  ELSE IF k = self.first
                                       THEN [self.node[k] EXCEPT !.prev = n]
                                       ELSE self.node[k]]]

\* PUT_NODE(self->dict, key, NULL) once the Node is in neither structure:
\* the last reference goes and node_dealloc frees it
DelNode(self, key) ==
    [self EXCEPT !.dict = @ \ {key}, !.lastput[key] = NULL,
                 !.node[key] = IF self.node[key].prev = NULL /\ self.node[key].next = NULL
                                  /\ self.first # key /\ self.last # key
                               THEN FreeNode ELSE @]

\* lru_delete_last that leaves the key in the dict (no PUT_NODE(key, NULL))
lru_delete_last_keeps_key(self) ==
    LET n == self.last
    IN IF n = NULL THEN self
       ELSE LET staged ==
                  IF self.callback # NULL
                  THEN [self EXCEPT !.staging_list = Append(@, <<n, self.node[n].value>>)]
                  ELSE self
                logged == [staged EXCEPT !.evicted = Append(@, <<n, self.node[n].value>>)]
            IN lru_remove_node(logged, n)

\* lru_delete_last that takes self->first, the most recently used Node
lru_delete_last_takes_first(self) ==
    LET n == self.first
    IN IF n = NULL THEN self
       ELSE LET staged ==
                  IF self.callback # NULL
                  THEN [self EXCEPT !.staging_list = Append(@, <<n, self.node[n].value>>)]
                  ELSE self
                logged == [staged EXCEPT !.evicted = Append(@, <<n, self.node[n].value>>)]
            IN DelNode(lru_remove_node(logged, n), n)

\* lru_delete_last that puts the pair at the front of the staging list
lru_delete_last_stages_in_front(self) ==
    LET n == self.last
    IN IF n = NULL THEN self
       ELSE LET staged ==
                  IF self.callback # NULL
                  THEN [self EXCEPT !.staging_list = <<<<n, self.node[n].value>>>> \o @]
                  ELSE self
                logged == [staged EXCEPT !.evicted = Append(@, <<n, self.node[n].value>>)]
            IN DelNode(lru_remove_node(logged, n), n)

lru_delete_last(self) ==
    LET n == self.last
    IN IF n = NULL THEN self
       ELSE LET staged ==
                  IF self.callback # NULL
                  THEN [self EXCEPT !.staging_list = Append(@, <<n, self.node[n].value>>)]
                  ELSE self
                logged == [staged EXCEPT !.evicted = Append(@, <<n, self.node[n].value>>)]
            IN DelNode(lru_remove_node(logged, n), n)

lru_length(self) == Cardinality(self.dict)

\* lru_subscript that leaves the Node where it is in the list
lru_subscript_no_move(self, key) ==
    LET n == GET_NODE(self.dict, key)
    IN IF n = NULL
       THEN [self |-> [self EXCEPT !.misses = @ + 1], result |-> NULL]
       ELSE [self |-> [self EXCEPT !.hits = @ + 1], result |-> self.node[n].value]

\* lru_subscript that counts a hit whether or not it found the key
lru_subscript_counts_hit(self, key) ==
    LET n == GET_NODE(self.dict, key)
    IN IF n = NULL
       THEN [self |-> [self EXCEPT !.hits = @ + 1], result |-> NULL]
       ELSE LET moved == IF n # self.first
                         THEN lru_add_node_at_head(lru_remove_node(self, n), n)
                         ELSE self
            IN [self |-> [moved EXCEPT !.hits = @ + 1], result |-> self.node[n].value]

lru_subscript(self, key) ==
    LET n == GET_NODE(self.dict, key)
    IN IF n = NULL
       THEN [self |-> [self EXCEPT !.misses = @ + 1], result |-> NULL]
       ELSE LET moved == IF n # self.first
                         THEN lru_add_node_at_head(lru_remove_node(self, n), n)
                         ELSE self
            IN [self |-> [moved EXCEPT !.hits = @ + 1], result |-> self.node[n].value]

\* lru_ass_sub that compares the length with the size before it has put
\* the new Node into the dict
lru_ass_sub_early_test(self, key, value) ==
    LET n == GET_NODE(self.dict, key)
    IN IF value # NULL
       THEN IF n # NULL
            THEN LET set == [self EXCEPT !.node[n].value = value, !.lastput[key] = value]
                 IN [self |-> lru_add_node_at_head(lru_remove_node(set, n), n), res |-> 0]
            ELSE LET cut == IF lru_length(self) > self.size THEN lru_delete_last(self)
                            ELSE self
                     put == [cut EXCEPT !.dict = @ \cup {key}, !.lastput[key] = value,
                                        !.node[key] = [value |-> value, prev |-> NULL,
                                                       next |-> NULL]]
                 IN [self |-> lru_add_node_at_head(put, key), res |-> 0]
       ELSE IF n = NULL
            THEN [self |-> self, res |-> 0 - 1]
            ELSE [self |-> DelNode(lru_remove_node(self, n), n), res |-> 0]

\* lru_ass_sub that, for a key the dict holds, keeps the Node's old value
lru_ass_sub_keeps_value(self, key, value) ==
    LET n == GET_NODE(self.dict, key)
    IN IF value # NULL
       THEN IF n # NULL
            THEN LET set == [self EXCEPT !.lastput[key] = value]
                 IN [self |-> lru_add_node_at_head(lru_remove_node(set, n), n), res |-> 0]
            ELSE LET put == [self EXCEPT !.dict = @ \cup {key}, !.lastput[key] = value,
                                         !.node[key] = [value |-> value, prev |-> NULL,
                                                        next |-> NULL]]
                     cut == IF lru_length(put) > put.size THEN lru_delete_last(put) ELSE put
                 IN [self |-> lru_add_node_at_head(cut, key), res |-> 0]
       ELSE IF n = NULL
            THEN [self |-> self, res |-> 0 - 1]
            ELSE [self |-> DelNode(lru_remove_node(self, n), n), res |-> 0]

\* lru_ass_sub that evicts as soon as the new Node fills the cache
lru_ass_sub_evicts_at_size(self, key, value) ==
    LET n == GET_NODE(self.dict, key)
    IN IF value # NULL
       THEN IF n # NULL
            THEN LET set == [self EXCEPT !.node[n].value = value, !.lastput[key] = value]
                 IN [self |-> lru_add_node_at_head(lru_remove_node(set, n), n), res |-> 0]
            ELSE LET put == [self EXCEPT !.dict = @ \cup {key}, !.lastput[key] = value,
                                         !.node[key] = [value |-> value, prev |-> NULL,
                                                        next |-> NULL]]
                     cut == IF lru_length(put) >= put.size THEN lru_delete_last(put) ELSE put
                 IN [self |-> lru_add_node_at_head(cut, key), res |-> 0]
       ELSE IF n = NULL
            THEN [self |-> self, res |-> 0 - 1]
            ELSE [self |-> DelNode(lru_remove_node(self, n), n), res |-> 0]

\* lru_ass_sub that stages the pair of a key it deletes, as an eviction would
lru_ass_sub_del_stages(self, key, value) ==
    LET n == GET_NODE(self.dict, key)
    IN IF value # NULL
       THEN IF n # NULL
            THEN LET set == [self EXCEPT !.node[n].value = value, !.lastput[key] = value]
                 IN [self |-> lru_add_node_at_head(lru_remove_node(set, n), n), res |-> 0]
            ELSE LET put == [self EXCEPT !.dict = @ \cup {key}, !.lastput[key] = value,
                                         !.node[key] = [value |-> value, prev |-> NULL,
                                                        next |-> NULL]]
                     cut == IF lru_length(put) > put.size THEN lru_delete_last(put) ELSE put
                 IN [self |-> lru_add_node_at_head(cut, key), res |-> 0]
       ELSE IF n = NULL
            THEN [self |-> self, res |-> 0 - 1]
            ELSE LET staged ==
                       IF self.callback # NULL
                       THEN [self EXCEPT !.staging_list = Append(@, <<n, self.node[n].value>>)]
                       ELSE self
                 IN [self |-> DelNode(lru_remove_node(staged, n), n), res |-> 0]

\* lru_ass_sub that reports success when the key to delete is not in the dict
lru_ass_sub_del_absent_ok(self, key, value) ==
    LET n == GET_NODE(self.dict, key)
    IN IF value # NULL
       THEN IF n # NULL
            THEN LET set == [self EXCEPT !.node[n].value = value, !.lastput[key] = value]
                 IN [self |-> lru_add_node_at_head(lru_remove_node(set, n), n), res |-> 0]
            ELSE LET put == [self EXCEPT !.dict = @ \cup {key}, !.lastput[key] = value,
                                         !.node[key] = [value |-> value, prev |-> NULL,
                                                        next |-> NULL]]
                     cut == IF lru_length(put) > put.size THEN lru_delete_last(put) ELSE put
                 IN [self |-> lru_add_node_at_head(cut, key), res |-> 0]
       ELSE IF n = NULL
            THEN [self |-> self, res |-> 0]
            ELSE [self |-> DelNode(lru_remove_node(self, n), n), res |-> 0]

lru_ass_sub(self, key, value) ==
    LET n == GET_NODE(self.dict, key)
    IN IF value # NULL
       THEN IF n # NULL
            THEN LET set == [self EXCEPT !.node[n].value = value, !.lastput[key] = value]
                 IN [self |-> lru_add_node_at_head(lru_remove_node(set, n), n), res |-> 0]
            ELSE LET put == [self EXCEPT !.dict = @ \cup {key}, !.lastput[key] = value,
                                         !.node[key] = [value |-> value, prev |-> NULL,
                                                        next |-> NULL]]
                     cut == IF lru_length(put) > put.size THEN lru_delete_last(put) ELSE put
                 IN [self |-> lru_add_node_at_head(cut, key), res |-> 0]
       ELSE IF n = NULL
            THEN [self |-> self, res |-> 0 - 1]
            ELSE [self |-> DelNode(lru_remove_node(self, n), n), res |-> 0]

\* the keys of the list from Node n on, following next (at most fuel Nodes)
RECURSIVE Walk(_, _, _)
Walk(self, n, fuel) ==
    IF n = NULL \/ fuel = 0 THEN <<>>
    ELSE <<n>> \o Walk(self, self.node[n].next, fuel - 1)

get_key(self, n) == n
get_value(self, n) == self.node[n].value
get_item(self, n) == <<n, self.node[n].value>>

Reverse(seq) == [i \in 1..Len(seq) |-> seq[Len(seq) + 1 - i]]

\* collect with get_key / get_value (a list of objects) and with get_item
collect_keys(self) ==
    LET w == Walk(self, self.first, MaxKey + 1) IN [i \in 1..Len(w) |-> get_key(self, w[i])]
collect_values(self) ==
    LET w == Walk(self, self.first, MaxKey + 1) IN [i \in 1..Len(w) |-> get_value(self, w[i])]
\* collect that starts at self->last and follows prev
collect_items_backwards(self) ==
    LET w == Reverse(Walk(self, self.first, MaxKey + 1))
    IN [i \in 1..Len(w) |-> get_item(self, w[i])]
collect_items(self) ==
    LET w == Walk(self, self.first, MaxKey + 1) IN [i \in 1..Len(w) |-> get_item(self, w[i])]

PyCallable_Check(o) == o = Callable

set_callback(self, temp) ==
    IF temp = Py_None THEN [self |-> [self EXCEPT !.callback = NULL], result |-> Py_None]
    ELSE IF ~PyCallable_Check(temp) THEN [self |-> self, result |-> NULL]
    ELSE [self |-> [self EXCEPT !.callback = temp], result |-> Py_None]

\* the loop of LRU_update over one dict argument, from entry pos on
RECURSIVE UpdateLoop(_, _, _)
UpdateLoop(self, d, pos) ==
    IF pos >= Len(d) THEN self
    ELSE UpdateLoop(lru_ass_sub(self, d[pos + 1][1], d[pos + 1][2]).self, d, pos + 1)

\* the loop of LRU_set_size with >= for >: it goes one Node too far
RECURSIVE SetSizeLoop_one_more(_, _)
SetSizeLoop_one_more(self, newSize) ==
    IF lru_length(self) >= newSize /\ self.last # NULL
    THEN SetSizeLoop_one_more(lru_delete_last(self), newSize)
    ELSE self

\* the loop of LRU_set_size; it cannot make progress once last is NULL
RECURSIVE SetSizeLoop(_, _)
SetSizeLoop(self, newSize) ==
    IF lru_length(self) > newSize /\ self.last # NULL
    THEN SetSizeLoop(lru_delete_last(self), newSize)
    ELSE self

\* the loop of LRU_clear
RECURSIVE ClearLoop(_, _)
ClearLoop(self, c) ==
    IF c = NULL THEN self
    ELSE ClearLoop(lru_remove_node(self, c), self.node[c].next)

PyDict_Clear(self) ==
    [self EXCEPT !.dict = {}, !.node = [k \in Keys |-> FreeNode],
                 !.lastput = [k \in Keys |-> NULL]]

\* ---------------------------------------------------------------- threads
IdleThread ==
    [pc |-> "idle", op |-> "", key |-> NULL, value |-> NULL, ret |-> NULL,
     tup |-> <<>>, lst |-> <<>>, exc |-> "", node |-> NULL, i |-> 0, pos |-> 0,
     then |-> "", results |-> <<>>]

Init ==
    /\ lru = ZeroLRU
    /\ alive = FALSE
    /\ lock = NULL
    /\ th = [t \in Threads |-> IdleThread]
    /\ cblog = <<>>

\* what a public method leaves in its thread once its critical section is
\* over: r gives the fields that differ from those of an idle thread
After(t, r) ==
    [th EXCEPT ![t] = [f \in DOMAIN IdleThread |->
                         IF f \in DOMAIN r THEN r[f] ELSE IdleThread[f]]]

Locked(t) == alive /\ th[t].pc = "locked" /\ lock = t

\* hits and misses are Py_ssize_t counters; the model stops looking keys up
\* once they have counted MaxLookups lookups
CanCount == lru.hits + lru.misses < MaxLookups

\* LRU(size, callback): tp_new followed by LRU_init; a failed LRU_init raises
\* and the half-built object is deallocated
LRU_init(t, size, callback) ==
    /\ ~alive /\ th[t].pc = "idle"
    /\ IF callback # NULL /\ callback # Py_None /\ ~PyCallable_Check(callback)
       THEN /\ UNCHANGED <<lru, alive>>
            /\ th' = After(t, [pc |-> "done", op |-> "LRU_init", value |-> size,
                               ret |-> 0 - 1, exc |-> "TypeError"])
       ELSE IF size <= 0
       THEN /\ UNCHANGED <<lru, alive>>
            /\ th' = After(t, [pc |-> "done", op |-> "LRU_init", value |-> size,
                               ret |-> 0 - 1, exc |-> "ValueError"])
       ELSE /\ lru' = [ZeroLRU EXCEPT !.size = size,
                                      !.callback = IF callback # NULL /\ callback # Py_None
                                                   THEN callback ELSE NULL]
            /\ alive' = TRUE
            /\ th' = After(t, [pc |-> "done", op |-> "LRU_init", value |-> size])
    /\ UNCHANGED <<lock, cblog>>

\* lru_acquire_lock at the head of an LRU_* method: blocks until the lock is free
lru_acquire_lock(t) ==
    /\ alive /\ th[t].pc = "idle" /\ lock = NULL
    /\ lock' = t
    /\ th' = [th EXCEPT ![t].pc = "locked"]
    /\ UNCHANGED <<lru, alive, cblog>>

LRU_length_lock(t) ==
    /\ Locked(t)
    /\ lock' = NULL
    /\ th' = After(t, [pc |-> "done", op |-> "LRU_length_lock", ret |-> lru_length(lru)])
    /\ UNCHANGED <<lru, alive, cblog>>

\* LRU_contains_key, and LRU_contains and LRU_seq_contains, which do the same
\* LRU_contains_key that looks the key up with lru_subscript, as a get does
LRU_contains_key_as_get(t, key) ==
    /\ Locked(t)
    /\ lock' = NULL
    /\ lru' = lru_subscript(lru, key).self
    /\ th' = After(t, [pc |-> "done", op |-> "LRU_contains_key", key |-> key,
                       ret |-> IF key \in lru.dict THEN Py_True ELSE Py_False])
    /\ UNCHANGED <<alive, cblog>>

LRU_contains_key(t, key) ==
    /\ Locked(t)
    /\ lock' = NULL
    /\ th' = After(t, [pc |-> "done", op |-> "LRU_contains_key", key |-> key,
                       ret |-> IF key \in lru.dict THEN Py_True ELSE Py_False])
    /\ UNCHANGED <<lru, alive, cblog>>

LRU_subscript_lock(t, key) ==
    /\ Locked(t) /\ CanCount
    /\ LET r == lru_subscript(lru, key)
       IN /\ lru' = r.self
          /\ th' = After(t, [pc |-> "done", op |-> "LRU_subscript_lock", key |-> key,
                             node |-> GET_NODE(lru.dict, key), ret |-> r.result,
                             exc |-> IF r.result = NULL THEN "KeyError" ELSE ""])
    /\ lock' = NULL
    /\ UNCHANGED <<alive, cblog>>

LRU_get(t, key, instead) ==
    /\ Locked(t) /\ CanCount
    /\ LET r == lru_subscript(lru, key)
       IN /\ lru' = r.self
          /\ th' = After(t, [pc |-> "done", op |-> "LRU_get", key |-> key, value |-> instead,
                             node |-> GET_NODE(lru.dict, key),
                             ret |-> IF r.result # NULL THEN r.result
                                     ELSE IF instead = NULL THEN Py_None ELSE instead])
    /\ lock' = NULL
    /\ UNCHANGED <<alive, cblog>>

\* LRU_ass_sub_lock_purge that goes on to lru_purge_staging with the lock held
LRU_ass_sub_purge_locked(t, key, value) ==
    /\ Locked(t)
    /\ LET r == lru_ass_sub(lru, key, value)
       IN /\ lru' = r.self
          /\ th' = After(t, [pc |-> "purge", then |-> "done", op |-> "LRU_ass_sub_lock_purge",
                             key |-> key, value |-> value, node |-> GET_NODE(lru.dict, key),
                             ret |-> r.res, exc |-> IF r.res # 0 THEN "KeyError" ELSE ""])
    /\ lock' = lock
    /\ UNCHANGED <<alive, cblog>>

\* mp_ass_subscript: L[key] = value, and del L[key] when value is NULL
LRU_ass_sub_lock_purge(t, key, value) ==
    /\ Locked(t)
    /\ LET r == lru_ass_sub(lru, key, value)
       IN /\ lru' = r.self
          /\ th' = After(t, [pc |-> "purge", then |-> "done", op |-> "LRU_ass_sub_lock_purge",
                             key |-> key, value |-> value, node |-> GET_NODE(lru.dict, key),
                             ret |-> r.res, exc |-> IF r.res # 0 THEN "KeyError" ELSE ""])
    /\ lock' = NULL
    /\ UNCHANGED <<alive, cblog>>

\* LRU_update, positional dict given: one critical section over its pairs.
\* pos is the PyDict_Next cursor; it is left at the end of the dict.
LRU_update_arg(t, arg) ==
    /\ Locked(t)
    /\ lru' = UpdateLoop(lru, arg, 0)
    /\ lock' = NULL
    /\ th' = After(t, [pc |-> "purge", then |-> "update_kwargs", op |-> "LRU_update",
                       pos |-> Len(arg)])
    /\ UNCHANGED <<alive, cblog>>

\* LRU_update without a positional dict: the first block is skipped
LRU_update_noarg(t) ==
    /\ alive /\ th[t].pc = "idle"
    /\ th' = After(t, [pc |-> "update_kwargs", op |-> "LRU_update"])
    /\ UNCHANGED <<lru, alive, lock, cblog>>

\* LRU_update, keyword arguments given: lru_acquire_lock of the second block
LRU_update_kwargs_lock(t) ==
    /\ alive /\ th[t].pc = "update_kwargs" /\ lock = NULL
    /\ lock' = t
    /\ th' = [th EXCEPT ![t].pc = "update_locked"]
    /\ UNCHANGED <<lru, alive, cblog>>

\* the second block of LRU_update; its PyDict_Next goes on from pos
LRU_update_kwargs(t, kwargs) ==
    /\ alive /\ th[t].pc = "update_locked" /\ lock = t
    /\ lru' = UpdateLoop(lru, kwargs, th[t].pos)
    /\ lock' = NULL
    /\ th' = [th EXCEPT ![t].pc = "purge", ![t].then = "done", ![t].pos = 0]
    /\ UNCHANGED <<alive, cblog>>

\* LRU_update called without keyword arguments (kwargs == NULL)
LRU_update_nokwargs(t) ==
    /\ alive /\ th[t].pc = "update_kwargs"
    /\ th' = [th EXCEPT ![t].pc = "done", ![t].ret = Py_None, ![t].pos = 0]
    /\ UNCHANGED <<lru, alive, lock, cblog>>

\* LRU_setdefault that assigns the default also to a key the dict holds
LRU_setdefault_overwrites(t, key, default_obj) ==
    /\ Locked(t) /\ CanCount
    /\ LET r == lru_subscript(lru, key)
           d == IF default_obj = NULL THEN Py_None ELSE default_obj
           a == lru_ass_sub(r.self, key, d)
       IN /\ lru' = a.self
          /\ th' = IF r.result # NULL
                   THEN After(t, [pc |-> "done", op |-> "LRU_setdefault", key |-> key,
                                  value |-> default_obj, node |-> GET_NODE(lru.dict, key),
                                  ret |-> r.result])
                   ELSE After(t, [pc |-> "purge", then |-> "done", op |-> "LRU_setdefault",
                                  key |-> key, value |-> default_obj,
                                  ret |-> IF a.res # 0 THEN NULL ELSE d])
    /\ lock' = NULL
    /\ UNCHANGED <<alive, cblog>>

\* LRU_setdefault: lru_subscript first (a hit returns the value at once,
\* without a drain); on a miss the default, Py_None when none was given, is
\* assigned with lru_ass_sub and returned after the drain
LRU_setdefault(t, key, default_obj) ==
    /\ Locked(t) /\ CanCount
    /\ LET r == lru_subscript(lru, key)
           d == IF default_obj = NULL THEN Py_None ELSE default_obj
           a == lru_ass_sub(r.self, key, d)
       IN IF r.result # NULL
          THEN /\ lru' = r.self
               /\ th' = After(t, [pc |-> "done", op |-> "LRU_setdefault", key |-> key,
                                  value |-> default_obj, node |-> GET_NODE(lru.dict, key),
                                  ret |-> r.result])
          ELSE /\ lru' = a.self
               /\ th' = After(t, [pc |-> "purge", then |-> "done", op |-> "LRU_setdefault",
                                  key |-> key, value |-> default_obj,
                                  ret |-> IF a.res # 0 THEN NULL ELSE d])
    /\ lock' = NULL
    /\ UNCHANGED <<alive, cblog>>

\* LRU_pop that hands back None for a missing key when no default is given
LRU_pop_no_keyerror(t, key, default_obj) ==
    /\ Locked(t) /\ CanCount
    /\ LET r == lru_subscript(lru, key)
       IN IF r.result # NULL
          THEN /\ lru' = lru_ass_sub(r.self, key, NULL).self
               /\ th' = After(t, [pc |-> "done", op |-> "LRU_pop", key |-> key,
                                  value |-> default_obj, node |-> GET_NODE(lru.dict, key),
                                  ret |-> r.result])
          ELSE /\ lru' = r.self
               /\ th' = After(t, [pc |-> "done", op |-> "LRU_pop", key |-> key,
                                  value |-> default_obj,
                                  ret |-> IF default_obj = NULL THEN Py_None
                                          ELSE default_obj])
    /\ lock' = NULL
    /\ UNCHANGED <<alive, cblog>>

\* LRU_pop: lru_subscript, then lru_ass_sub(key, NULL) on a hit; on a miss the
\* default when one was given, else the KeyError of lru_subscript stays set
LRU_pop(t, key, default_obj) ==
    /\ Locked(t) /\ CanCount
    /\ LET r == lru_subscript(lru, key)
       IN IF r.result # NULL
          THEN /\ lru' = lru_ass_sub(r.self, key, NULL).self
               /\ th' = After(t, [pc |-> "done", op |-> "LRU_pop", key |-> key,
                                  value |-> default_obj, node |-> GET_NODE(lru.dict, key),
                                  ret |-> r.result])
          ELSE /\ lru' = r.self
               /\ th' = After(t, [pc |-> "done", op |-> "LRU_pop", key |-> key,
                                  value |-> default_obj, ret |-> default_obj,
                                  exc |-> IF default_obj = NULL THEN "KeyError" ELSE ""])
    /\ lock' = NULL
    /\ UNCHANGED <<alive, cblog>>

LRU_peek_first_item(t) ==
    /\ Locked(t)
    /\ lock' = NULL
    /\ th' = IF lru.first # NULL
             THEN After(t, [pc |-> "done", op |-> "LRU_peek_first_item",
                            tup |-> get_item(lru, lru.first)])
             ELSE After(t, [pc |-> "done", op |-> "LRU_peek_first_item", ret |-> Py_None])
    /\ UNCHANGED <<lru, alive, cblog>>

\* LRU_peek_last_item that moves the Node it returns to the head
LRU_peek_last_item_moves(t) ==
    /\ Locked(t)
    /\ lock' = NULL
    /\ th' = IF lru.last # NULL
             THEN After(t, [pc |-> "done", op |-> "LRU_peek_last_item",
                            tup |-> get_item(lru, lru.last)])
             ELSE After(t, [pc |-> "done", op |-> "LRU_peek_last_item", ret |-> Py_None])
    /\ lru' = IF lru.last # NULL
              THEN lru_add_node_at_head(lru_remove_node(lru, lru.last), lru.last)
              ELSE lru
    /\ UNCHANGED <<alive, cblog>>

LRU_peek_last_item(t) ==
    /\ Locked(t)
    /\ lock' = NULL
    /\ th' = IF lru.last # NULL
             THEN After(t, [pc |-> "done", op |-> "LRU_peek_last_item",
                            tup |-> get_item(lru, lru.last)])
             ELSE After(t, [pc |-> "done", op |-> "LRU_peek_last_item", ret |-> Py_None])
    /\ UNCHANGED <<lru, alive, cblog>>

\* LRU_popitem that takes the other end of the list
LRU_popitem_other_end(t, pop_least_recent) ==
    /\ Locked(t)
    /\ LET n == IF pop_least_recent # 0 THEN lru.first ELSE lru.last
       IN IF n = NULL
          THEN /\ lru' = lru
               /\ th' = After(t, [pc |-> "done", op |-> "LRU_popitem",
                                  value |-> pop_least_recent, exc |-> "KeyError"])
          ELSE /\ lru' = lru_ass_sub(lru, get_item(lru, n)[1], NULL).self
               /\ th' = After(t, [pc |-> "done", op |-> "LRU_popitem",
                                  value |-> pop_least_recent, node |-> n,
                                  tup |-> get_item(lru, n)])
    /\ lock' = NULL
    /\ UNCHANGED <<alive, cblog>>

\* LRU_popitem that returns from an empty list without lru_release_lock
LRU_popitem_keeps_lock(t, pop_least_recent) ==
    /\ Locked(t)
    /\ LET n == IF pop_least_recent # 0 THEN lru.last ELSE lru.first
       IN IF n = NULL
          THEN /\ lru' = lru
               /\ th' = After(t, [pc |-> "done", op |-> "LRU_popitem",
                                  value |-> pop_least_recent, exc |-> "KeyError"])
               /\ lock' = lock
          ELSE /\ lru' = lru_ass_sub(lru, get_item(lru, n)[1], NULL).self
               /\ th' = After(t, [pc |-> "done", op |-> "LRU_popitem",
                                  value |-> pop_least_recent, node |-> n,
                                  tup |-> get_item(lru, n)])
               /\ lock' = NULL
    /\ UNCHANGED <<alive, cblog>>

\* item_to_pop is NULL when the list is empty: KeyError("popitem(): LRU dict
\* is empty"), the exception type of a lookup that misses with another
\* message; otherwise the pair is returned and its key deleted
LRU_popitem(t, pop_least_recent) ==
    /\ Locked(t)
    /\ LET n == IF pop_least_recent # 0 THEN lru.last ELSE lru.first
       IN IF n = NULL
          THEN /\ lru' = lru
               /\ th' = After(t, [pc |-> "done", op |-> "LRU_popitem",
                                  value |-> pop_least_recent, exc |-> "KeyError"])
          ELSE /\ lru' = lru_ass_sub(lru, get_item(lru, n)[1], NULL).self
               /\ th' = After(t, [pc |-> "done", op |-> "LRU_popitem",
                                  value |-> pop_least_recent, node |-> n,
                                  tup |-> get_item(lru, n)])
    /\ lock' = NULL
    /\ UNCHANGED <<alive, cblog>>

LRU_keys(t) ==
    /\ Locked(t)
    /\ lock' = NULL
    /\ th' = After(t, [pc |-> "done", op |-> "LRU_keys", tup |-> collect_keys(lru)])
    /\ UNCHANGED <<lru, alive, cblog>>

LRU_values(t) ==
    /\ Locked(t)
    /\ lock' = NULL
    /\ th' = After(t, [pc |-> "done", op |-> "LRU_values", tup |-> collect_values(lru)])
    /\ UNCHANGED <<lru, alive, cblog>>

LRU_items(t) ==
    /\ Locked(t)
    /\ lock' = NULL
    /\ th' = After(t, [pc |-> "done", op |-> "LRU_items", lst |-> collect_items(lru)])
    /\ UNCHANGED <<lru, alive, cblog>>

LRU_set_callback(t, temp) ==
    /\ Locked(t)
    /\ LET r == set_callback(lru, temp)
       IN /\ lru' = r.self
          /\ th' = After(t, [pc |-> "done", op |-> "LRU_set_callback", value |-> temp,
                             ret |-> r.result,
                             exc |-> IF r.result = NULL THEN "TypeError" ELSE ""])
    /\ lock' = NULL
    /\ UNCHANGED <<alive, cblog>>

\* LRU_set_size without the test of newSize
LRU_set_size_any(t, newSize) ==
    /\ Locked(t)
    /\ LET should_purge == lru_length(lru) > newSize
       IN /\ lru' = [SetSizeLoop(lru, newSize) EXCEPT !.size = newSize]
          /\ th' = After(t, [pc |-> IF should_purge THEN "purge" ELSE "done",
                             then |-> IF should_purge THEN "done" ELSE "",
                             op |-> "LRU_set_size", value |-> newSize, ret |-> Py_None])
    /\ lock' = NULL
    /\ UNCHANGED <<alive, cblog>>

\* LRU_set_size that works out should_purge after the loop, when the length
\* is no longer above newSize
LRU_set_size_late_test(t, newSize) ==
    \/ /\ newSize <= 0
       /\ alive /\ th[t].pc = "idle"
       /\ th' = After(t, [pc |-> "done", op |-> "LRU_set_size", value |-> newSize,
                          exc |-> "ValueError"])
       /\ UNCHANGED <<lru, alive, lock, cblog>>
    \/ /\ newSize > 0
       /\ Locked(t)
       /\ LET after == SetSizeLoop(lru, newSize)
              should_purge == lru_length(after) > newSize
          IN /\ lru' = [after EXCEPT !.size = newSize]
             /\ th' = After(t, [pc |-> IF should_purge THEN "purge" ELSE "done",
                                then |-> IF should_purge THEN "done" ELSE "",
                                op |-> "LRU_set_size", value |-> newSize, ret |-> Py_None])
       /\ lock' = NULL
       /\ UNCHANGED <<alive, cblog>>

\* LRU_set_size that zeroes the counters, as LRU_init does
LRU_set_size_zeroes_stats(t, newSize) ==
    \/ /\ newSize <= 0
       /\ alive /\ th[t].pc = "idle"
       /\ th' = After(t, [pc |-> "done", op |-> "LRU_set_size", value |-> newSize,
                          exc |-> "ValueError"])
       /\ UNCHANGED <<lru, alive, lock, cblog>>
    \/ /\ newSize > 0
       /\ Locked(t)
       /\ LET should_purge == lru_length(lru) > newSize
          IN /\ lru' = [SetSizeLoop(lru, newSize) EXCEPT !.size = newSize,
                                                         !.hits = 0, !.misses = 0]
             /\ th' = After(t, [pc |-> IF should_purge THEN "purge" ELSE "done",
                                then |-> IF should_purge THEN "done" ELSE "",
                                op |-> "LRU_set_size", value |-> newSize, ret |-> Py_None])
       /\ lock' = NULL
       /\ UNCHANGED <<alive, cblog>>

\* a non-positive newSize is refused before the lock is taken
LRU_set_size(t, newSize) ==
    \/ /\ newSize <= 0
       /\ alive /\ th[t].pc = "idle"
       /\ th' = After(t, [pc |-> "done", op |-> "LRU_set_size", value |-> newSize,
                          exc |-> "ValueError"])
       /\ UNCHANGED <<lru, alive, lock, cblog>>
    \/ /\ newSize > 0
       /\ Locked(t)
       /\ LET should_purge == lru_length(lru) > newSize
          IN /\ lru' = [SetSizeLoop(lru, newSize) EXCEPT !.size = newSize]
             /\ th' = After(t, [pc |-> IF should_purge THEN "purge" ELSE "done",
                                then |-> IF should_purge THEN "done" ELSE "",
                                op |-> "LRU_set_size", value |-> newSize, ret |-> Py_None])
       /\ lock' = NULL
       /\ UNCHANGED <<alive, cblog>>

\* LRU_clear that stages the pairs it removes, as lru_delete_last would
LRU_clear_stages(t) ==
    /\ Locked(t)
    /\ lru' = [PyDict_Clear(ClearLoop(lru, lru.first))
                 EXCEPT !.hits = 0, !.misses = 0,
                        !.staging_list = IF lru.callback # NULL
                                         THEN @ \o collect_items(lru) ELSE @]
    /\ lock' = NULL
    /\ th' = After(t, [pc |-> "purge", then |-> "done", op |-> "LRU_clear", ret |-> Py_None,
                       node |-> lru.first])
    /\ UNCHANGED <<alive, cblog>>

\* LRU_clear: c starts at self->first (kept in node); every Node is unlinked,
\* the dict is cleared, the counters are zeroed, the lock is released and
\* lru_purge_staging is called
LRU_clear(t) ==
    /\ Locked(t)
    /\ lru' = [PyDict_Clear(ClearLoop(lru, lru.first)) EXCEPT !.hits = 0, !.misses = 0]
    /\ lock' = NULL
    /\ th' = After(t, [pc |-> "purge", then |-> "done", op |-> "LRU_clear", ret |-> Py_None,
                       node |-> lru.first])
    /\ UNCHANGED <<alive, cblog>>

LRU_get_size(t) ==
    /\ Locked(t)
    /\ lock' = NULL
    /\ th' = After(t, [pc |-> "done", op |-> "LRU_get_size", ret |-> lru.size])
    /\ UNCHANGED <<lru, alive, cblog>>

LRU_get_stats(t) ==
    /\ Locked(t)
    /\ lock' = NULL
    /\ th' = After(t, [pc |-> "done", op |-> "LRU_get_stats",
                       tup |-> <<lru.hits, lru.misses>>])
    /\ UNCHANGED <<lru, alive, cblog>>

\* ---------------------------------------------------- lru_purge_staging
\* PySequence_DelItem(list, i), i counted from 0; out of range is an error
\* that the caller clears
PySequence_DelItem(list, i) ==
    IF i < 0 \/ i >= Len(list) THEN list
    ELSE SubSeq(list, 1, i) \o SubSeq(list, i + 2, Len(list))

\* entry of lru_purge_staging that leaves the list as it is when there is no
\* callback
lru_purge_staging_no_wipe(t) ==
    /\ th[t].pc = "purge"
    /\ LET len == Len(lru.staging_list)
       IN /\ lru' = lru
          /\ th' = IF lru.callback = NULL \/ len = 0
                   THEN [th EXCEPT ![t].pc = th[t].then, ![t].then = ""]
                   ELSE [th EXCEPT ![t].pc = "purge_loop", ![t].i = len - 1]
    /\ UNCHANGED <<alive, lock, cblog>>

\* entry of lru_purge_staging: len is read once; without a callback the
\* list is wiped; with one the loop runs from the last element down, and
\* the function returns at once when the list is empty
lru_purge_staging(t) ==
    /\ th[t].pc = "purge"
    /\ LET len == Len(lru.staging_list)
       IN IF lru.callback = NULL
          THEN /\ lru' = [lru EXCEPT !.staging_list = SubSeq(@, len + 1, Len(@))]
               /\ th' = [th EXCEPT ![t].pc = th[t].then, ![t].then = ""]
          ELSE /\ lru' = lru
               /\ th' = IF len = 0
                        THEN [th EXCEPT ![t].pc = th[t].then, ![t].then = ""]
                        ELSE [th EXCEPT ![t].pc = "purge_loop", ![t].i = len - 1]
    /\ UNCHANGED <<alive, lock, cblog>>

\* a turn of the loop that leaves the pair in the staging list
lru_purge_staging_call_no_del(t) ==
    /\ th[t].pc = "purge_loop" /\ th[t].i >= 0
    /\ LET i == th[t].i
           args == IF i < Len(lru.staging_list) THEN lru.staging_list[i + 1] ELSE <<>>
       IN /\ cblog' = IF args # <<>> /\ lru.callback # NULL THEN Append(cblog, args) ELSE cblog
          /\ lru' = lru
          /\ th' = IF i = 0
                   THEN [th EXCEPT ![t].pc = th[t].then, ![t].then = "", ![t].i = 0]
                   ELSE [th EXCEPT ![t].i = i - 1]
    /\ UNCHANGED <<alive, lock>>

\* one turn of the loop: PySequence_GetItem(i), the call of the callback
\* (recorded in cblog), PySequence_DelItem(i), i--; after the turn for
\* i = 0 the function returns to the method that called it
lru_purge_staging_call(t) ==
    /\ th[t].pc = "purge_loop" /\ th[t].i >= 0
    /\ LET i == th[t].i
           args == IF i < Len(lru.staging_list) THEN lru.staging_list[i + 1] ELSE <<>>
       IN /\ cblog' = IF args # <<>> /\ lru.callback # NULL THEN Append(cblog, args) ELSE cblog
          /\ lru' = [lru EXCEPT !.staging_list = PySequence_DelItem(@, i)]
          /\ th' = IF i = 0
                   THEN [th EXCEPT ![t].pc = th[t].then, ![t].then = "", ![t].i = 0]
                   ELSE [th EXCEPT ![t].i = i - 1]
    /\ UNCHANGED <<alive, lock>>

\* the method returns to its caller; the histories of the operation end here
Return(t) ==
    /\ th[t].pc = "done"
    /\ th' = [th EXCEPT ![t] = IdleThread]
    /\ lru' = [lru EXCEPT !.evicted = <<>>]
    /\ cblog' = <<>>
    /\ UNCHANGED <<alive, lock>>

Defaults == {NULL} \cup Vals

Step(t) ==
    \/ \E size \in (0 - 1)..MaxSize, callback \in {NULL, Py_None, Callable, NonCallable} :
          LRU_init(t, size, callback)
    \/ lru_acquire_lock(t)
    \/ LRU_length_lock(t)
    \/ \E key \in Keys : LRU_contains_key(t, key)
    \/ \E key \in Keys : LRU_subscript_lock(t, key)
    \/ \E key \in Keys, instead \in Defaults : LRU_get(t, key, instead)
    \/ \E key \in Keys, value \in Defaults : LRU_ass_sub_lock_purge(t, key, value)
    \/ \E arg \in DictArgs : LRU_update_arg(t, arg)
    \/ LRU_update_noarg(t)
    \/ LRU_update_kwargs_lock(t)
    \/ \E kwargs \in {d \in DictArgs : th[t].pos + Len(d) <= MaxUpd} :
          LRU_update_kwargs(t, kwargs)
    \/ LRU_update_nokwargs(t)
    \/ \E key \in Keys, default_obj \in Defaults : LRU_setdefault(t, key, default_obj)
    \/ \E key \in Keys, default_obj \in Defaults : LRU_pop(t, key, default_obj)
    \/ LRU_peek_first_item(t)
    \/ LRU_peek_last_item(t)
    \/ \E pop_least_recent \in {0, 1} : LRU_popitem(t, pop_least_recent)
    \/ LRU_keys(t)
    \/ LRU_values(t)
    \/ LRU_items(t)
    \/ \E temp \in {Py_None, Callable, NonCallable} : LRU_set_callback(t, temp)
    \/ \E newSize \in (0 - 1)..MaxSize : LRU_set_size(t, newSize)
    \/ LRU_clear(t)
    \/ LRU_get_size(t)
    \/ LRU_get_stats(t)
    \/ lru_purge_staging(t)
    \/ lru_purge_staging_call(t)
    \/ Return(t)

\* one client thread calling the methods one after the other; the callback
\* does not call back into the LRU
Next == Step(MainThread)

Spec == Init /\ [][Next]_vars

\* ------------------------------------------ a callback that is Python code
\* The callback runs in the interpreter: it takes time, it may raise, it may
\* call the methods of the LRU it was called by, and while it runs the
\* interpreter may switch to another thread.  The turn of the loop of
\* lru_purge_staging is therefore two steps here, one up to the call and one
\* from its return on.

\* the places where the interpreter can switch threads: Python code, that is
\* between two methods and inside the callback; the methods themselves are C
\* code that runs with the GIL held (keys and values being plain objects).
\* A thread at "done" is in Python code too, but all it does there is to go
\* on to "idle", so nothing is lost by switching after that step only.
AtSwitchPoint(u) == th[u].pc \in {"idle", "callback"}

\* PyObject_CallObject(NULL, args) dereferences the null pointer
Crashed == \E u \in Threads : th[u].pc = "SIGSEGV"

\* the end of a turn of the loop: i--, and the return from lru_purge_staging
\* after the turn for i = 0
NextTurn(t) ==
    IF th[t].i = 0
    THEN [th EXCEPT ![t].pc = th[t].then, ![t].then = "", ![t].i = 0]
    ELSE [th EXCEPT ![t].pc = "purge_loop", ![t].i = th[t].i - 1]

\* a turn of the loop up to the call: PySequence_GetItem(i), which fails
\* when the list has become shorter than i + 1 (the error is cleared, and so
\* is that of the PySequence_DelItem that follows), then
\* PyObject_CallObject(self->callback, args); self->callback is read anew in
\* every turn
lru_purge_staging_getitem(t) ==
    /\ th[t].pc = "purge_loop" /\ th[t].i >= 0
    /\ LET i == th[t].i
           args == IF i < Len(lru.staging_list) THEN lru.staging_list[i + 1] ELSE <<>>
       IN IF args = <<>>
          THEN /\ th' = NextTurn(t)
               /\ cblog' = cblog
          ELSE IF lru.callback = NULL
          THEN /\ th' = [th EXCEPT ![t].pc = "SIGSEGV"]
               /\ cblog' = cblog
          ELSE /\ th' = [th EXCEPT ![t].pc = "callback"]
               /\ cblog' = Append(cblog, args)
    /\ UNCHANGED <<lru, alive, lock>>

\* a turn of the loop that leaves the loop when the callback has raised
lru_purge_staging_delitem_break(t, result) ==
    /\ th[t].pc = "callback"
    /\ lru' = [lru EXCEPT !.staging_list = PySequence_DelItem(@, th[t].i)]
    /\ th' = IF result = NULL
             THEN [th EXCEPT ![t].pc = th[t].then, ![t].then = "", ![t].i = 0,
                             ![t].results = Append(@, result), ![t].exc = "CallbackError"]
             ELSE [NextTurn(t) EXCEPT ![t].results = Append(@, result)]
    /\ UNCHANGED <<alive, lock, cblog>>

\* a turn of the loop from the return of the callback on: result is NULL
\* when the callback raised, and the exception is left pending;
\* Py_XDECREF(result), Py_XDECREF(args), PySequence_DelItem(i) with its error
\* cleared, i--
lru_purge_staging_delitem(t, result) ==
    /\ th[t].pc = "callback"
    /\ lru' = [lru EXCEPT !.staging_list = PySequence_DelItem(@, th[t].i)]
    /\ th' = [NextTurn(t) EXCEPT ![t].results = Append(@, result),
                                 ![t].exc = IF result = NULL THEN "CallbackError" ELSE @]
    /\ UNCHANGED <<alive, lock, cblog>>

\* the method returns to the Python code that called it; the histories end
\* when no other call of a method is under way
ReturnOf(t) ==
    /\ th[t].pc = "done"
    /\ th' = [th EXCEPT ![t] = IdleThread]
    /\ IF \A u \in Threads \ {t} : th[u].pc = "idle"
       THEN lru' = [lru EXCEPT !.evicted = <<>>] /\ cblog' = <<>>
       ELSE UNCHANGED <<lru, cblog>>
    /\ UNCHANGED <<alive, lock>>

\* one client thread and a callback that calls the methods of the LRU: the
\* entries of th are the frames of the stack, frame t + 1 being the code of
\* the callback that the drain of frame t has called
InFrame(t) ==
    /\ \A u \in Threads : u > t => th[u].pc = "idle"
    /\ t > 1 => th[t - 1].pc = "callback"

\* several client threads under the GIL: a thread runs while every other
\* thread is at a switch point
OthersAtSwitchPoint(t) == \A u \in Threads \ {t} : AtSwitchPoint(u)

\* whether the code that holds entry t of th is the code that runs
Running(t, how) ==
    /\ ~Crashed
    /\ CASE how = "alone" -> t = MainThread
         [] how = "frames" -> InFrame(t)
         [] how = "threads" -> OthersAtSwitchPoint(t)

\* what Python code does with the LRU: construct it, assign and delete
\* items, resize it, set its callback; once MaxHist evictions are on record
\* no method that can evict is called
Calls(t, how) ==
    \/ /\ Running(t, how) /\ t = MainThread
       /\ \E size \in (0 - 1)..MaxSize, callback \in {NULL, Py_None, Callable, NonCallable} :
             LRU_init(t, size, callback)
    \/ Running(t, how) /\ lru_acquire_lock(t)
    \/ /\ Running(t, how) /\ Len(lru.evicted) < MaxHist
       /\ \E key \in Keys, value \in {NULL, 1} : LRU_ass_sub_lock_purge(t, key, value)
    \/ /\ Running(t, how) /\ Len(lru.evicted) < MaxHist
       /\ \E newSize \in 0..MaxSize : LRU_set_size(t, newSize)
    \/ Running(t, how) /\ \E temp \in {Py_None, Callable} : LRU_set_callback(t, temp)
    \/ Running(t, how) /\ lru_purge_staging(t)
    \/ Running(t, how) /\ lru_purge_staging_getitem(t)
    \/ Running(t, how) /\ \E result \in {NULL, Py_None} : lru_purge_staging_delitem(t, result)
    \/ Running(t, how) /\ ReturnOf(t)

\* one client thread, and a callback that may raise but calls nothing
NextCallback == Calls(MainThread, "alone")

SpecCallback == Init /\ [][NextCallback]_vars

\* one client thread, and a callback that calls the methods of the LRU
NextReentrant == \E t \in Threads : Calls(t, "frames")

SpecReentrant == Init /\ [][NextReentrant]_vars

\* several client threads
NextThreads == \E t \in Threads : Calls(t, "threads")

SpecThreads == Init /\ [][NextThreads]_vars

\* ------------------------------------------------ the example of lru_doc
\* l = LRU(3); for i in range(5): l[i] = str(i); l.keys().  Key i of the
\* example is Node i + 1 here (0 is NULL in the model), the value assigned
\* is any of Vals, and the LRU is built with any size up to that of the
\* example, with or without a callback; keys are assigned in rising order
\* and keys() may be called after any of the assignments
DocSize == 3
DocLast == 5
DocKeys == 1..DocLast

\* the key of the next turn of the loop of the example
DocNext ==
    IF lru.dict = {} THEN 1
    ELSE (CHOOSE k \in lru.dict : \A j \in lru.dict : j <= k) + 1

InitDoc ==
    /\ \E size \in 1..DocSize, callback \in {NULL, Callable} :
          lru = [ZeroLRU EXCEPT !.node = [k \in DocKeys |-> FreeNode],
                                !.lastput = [k \in DocKeys |-> NULL],
                                !.size = size, !.callback = callback]
    /\ alive = TRUE
    /\ lock = NULL
    /\ th = [t \in Threads |-> IdleThread]
    /\ cblog = <<>>

NextDoc ==
    \/ lru_acquire_lock(MainThread)
    \/ /\ DocNext <= DocLast
       /\ \E value \in Vals : LRU_ass_sub_lock_purge(MainThread, DocNext, value)
    \/ LRU_keys(MainThread)
    \/ lru_purge_staging(MainThread)
    \/ lru_purge_staging_call(MainThread)
    \/ Return(MainThread)

SpecDoc == InitDoc /\ [][NextDoc]_vars

\* ------------------------------------- threads that assign their own keys
\* Several client threads assign to one LRU, thread t to the keys of
\* KeysOf(t) only.  The keys are objects whose __hash__ is Python code: the
\* dict looks a key up by calling it, inside the critical section, so the
\* interpreter may switch threads while a thread holds the lock (pc
\* "locked").  lru_acquire_lock calls PyThread_acquire_lock(WAIT_LOCK)
\* without giving up the GIL: a thread that finds the lock taken waits for
\* it holding the GIL.
KeysOf(t) == {k \in Keys : k % NumThreads = t % NumThreads}

\* lru_acquire_lock when the lock is taken: the thread waits inside
\* PyThread_acquire_lock, still holding the GIL
lru_acquire_lock_blocks(t) ==
    /\ alive /\ th[t].pc = "idle" /\ lock # NULL
    /\ th' = [th EXCEPT ![t].pc = "PyThread_acquire_lock"]
    /\ UNCHANGED <<lru, alive, lock, cblog>>

\* thread t can have the GIL: every other thread is in Python code, between
\* two methods, in the callback, or in the __hash__ of its key
HoldsGIL(t) ==
    /\ ~Crashed
    /\ \A u \in Threads \ {t} : th[u].pc \in {"idle", "callback", "locked"}

InitPuts ==
    /\ \E size \in 1..MaxKey, callback \in {NULL, Callable} :
          lru = [ZeroLRU EXCEPT !.size = size, !.callback = callback]
    /\ alive = TRUE
    /\ lock = NULL
    /\ th = [t \in Threads |-> IdleThread]
    /\ cblog = <<>>

Puts(t) ==
    \/ HoldsGIL(t) /\ lru_acquire_lock(t)
    \/ HoldsGIL(t) /\ lru_acquire_lock_blocks(t)
    \/ /\ HoldsGIL(t) /\ Len(lru.evicted) < MaxHist
       /\ \E key \in KeysOf(t), value \in Vals : LRU_ass_sub_lock_purge(t, key, value)
    \/ HoldsGIL(t) /\ lru_purge_staging(t)
    \/ HoldsGIL(t) /\ lru_purge_staging_getitem(t)
    \/ HoldsGIL(t) /\ lru_purge_staging_delitem(t, Py_None)
    \/ HoldsGIL(t) /\ ReturnOf(t)

NextPuts == \E t \in Threads : Puts(t)

SpecPuts == InitPuts /\ [][NextPuts]_vars

\* --------------------------------------- update seen from another thread
\* l = LRU(size, callback); l[1] = 1; then the main thread calls
\* l.update(arg, **kwargs) once while every other thread calls l.items()
\* once.  The threads run under the GIL: a thread steps while every other
\* thread is in Python code, that is before its call, inside the callback,
\* or after its call has returned.
LinStart(size, callback) ==
    lru_ass_sub([ZeroLRU EXCEPT !.size = size, !.callback = callback], 1, 1).self

InitLin ==
    /\ \E size \in 1..MaxSize, callback \in {NULL, Callable} : lru = LinStart(size, callback)
    /\ alive = TRUE
    /\ lock = NULL
    /\ th = [t \in Threads |-> IdleThread]
    /\ cblog = <<>>

InPython(t) ==
    /\ ~Crashed
    /\ \A u \in Threads \ {t} : th[u].pc \in {"idle", "callback", "done"}

Updater(t) ==
    \/ InPython(t) /\ lru_acquire_lock(t)
    \/ InPython(t) /\ \E arg \in DictArgs : LRU_update_arg(t, arg)
    \/ InPython(t) /\ LRU_update_kwargs_lock(t)
    \/ InPython(t) /\ \E kwargs \in DictArgs : LRU_update_kwargs(t, kwargs)
    \/ InPython(t) /\ LRU_update_nokwargs(t)
    \/ InPython(t) /\ lru_purge_staging(t)
    \/ InPython(t) /\ lru_purge_staging_getitem(t)
    \/ InPython(t) /\ lru_purge_staging_delitem(t, Py_None)

Observer(t) ==
    \/ InPython(t) /\ lru_acquire_lock(t)
    \/ InPython(t) /\ LRU_items(t)

NextLin == Updater(MainThread) \/ \E t \in Threads \ {MainThread} : Observer(t)

SpecLin == InitLin /\ [][NextLin]_vars

\* ----------------------------- Python code inside a critical section
\* The keys are objects whose __hash__ and __eq__ are Python code, which
\* GET_NODE and PUT_NODE call with the lock held, and that code may call the
\* methods of the LRU, as the callback may.  The entries of th are the frames
\* of the stack of the one client thread: frame t + 1 is the Python code that
\* frame t has called, from its critical section (pc "locked") or from
\* lru_purge_staging (pc "callback").
Nested(t) ==
    /\ ~Crashed
    /\ \A u \in Threads : u > t => th[u].pc = "idle"
    /\ t > 1 => th[t - 1].pc \in {"locked", "callback"}

InitNested ==
    /\ \E size \in 1..MaxSize, callback \in {NULL, Callable} :
          lru = [ZeroLRU EXCEPT !.size = size, !.callback = callback]
    /\ alive = TRUE
    /\ lock = NULL
    /\ th = [t \in Threads |-> IdleThread]
    /\ cblog = <<>>

\* the methods that look a key up: assignment and deletion, pop, setdefault
Nest(t) ==
    \/ Nested(t) /\ lru_acquire_lock(t)
    \/ Nested(t) /\ lru_acquire_lock_blocks(t)
    \/ /\ Nested(t) /\ Len(lru.evicted) < MaxHist
       /\ \E key \in Keys, value \in {NULL, 1} : LRU_ass_sub_lock_purge(t, key, value)
    \/ Nested(t) /\ \E key \in Keys, default_obj \in {NULL, 1} : LRU_pop(t, key, default_obj)
    \/ /\ Nested(t) /\ Len(lru.evicted) < MaxHist
       /\ \E key \in Keys, default_obj \in {NULL, 1} : LRU_setdefault(t, key, default_obj)
    \/ Nested(t) /\ lru_purge_staging(t)
    \/ Nested(t) /\ lru_purge_staging_getitem(t)
    \/ Nested(t) /\ lru_purge_staging_delitem(t, Py_None)
    \/ Nested(t) /\ ReturnOf(t)

NextNested == \E t \in Threads : Nest(t)

SpecNested == InitNested /\ [][NextNested]_vars

\* ------------------------------ src/src/lru/_lru.c: the callback is inline
\* _lru.c has no lock and no staging list: lru_delete_last calls the callback
\* itself, after lru_remove_node and before PUT_NODE(dict, n->key, NULL), and
\* lru_ass_sub calls lru_delete_last after PUT_NODE(dict, key, node) and
\* before lru_add_node_at_head.  GET_NODE, lru_subscript, lru_remove_node,
\* lru_add_node_at_head and lru_length are the same code as in lru.c.  The
\* entries of th are the frames of the stack, as in SpecReentrant; the
\* callback of the topmost frame calls nothing.
\*
\* A frame records n, the Node of the lru_delete_last it is in, and, for
\* lru_ass_sub, key, the key of the Node it has created and still holds a
\* reference to; detached tells that the dict has let go of that Node.
InlineKeys == 1..InlineMaxKey

InlineIdle ==
    [pc |-> "idle", op |-> "", key |-> NULL, value |-> NULL, n |-> NULL,
     detached |-> FALSE, ret |-> NULL, exc |-> ""]

InitInline ==
    /\ \E size \in 1..InlineMaxSize, callback \in {NULL, Callable} :
          lru = [ZeroLRU EXCEPT !.size = size, !.callback = callback]
    /\ alive = TRUE
    /\ lock = NULL
    /\ th = [t \in Threads |-> InlineIdle]
    /\ cblog = <<>>

\* the frames whose lru_ass_sub holds the reference to the Node it created
\* for key k, the dict holding the other one
Creators(frames, k) ==
    {u \in Threads : /\ frames[u].pc = "callback" /\ frames[u].op = "lru_ass_sub"
                     /\ frames[u].key = k /\ ~frames[u].detached}

\* whether the list, or the n of a frame other than t, points to the Node of k
PointedTo(self, frames, k, t) ==
    \/ self.first = k \/ self.last = k
    \/ \E j \in DOMAIN self.node : self.node[j].prev = k \/ self.node[j].next = k
    \/ \E u \in Threads \ {t} : frames[u].pc = "callback" /\ frames[u].n = k

\* the dict drops its reference to the Node of k (k is in the dict): the Node
\* lives on if a frame holds a reference to it, and is deallocated by
\* node_dealloc otherwise; dangling tells that a pointer to it is left
Unref(self, frames, k, t) ==
    [self |-> DelNode(self, k),
     frames |-> [u \in Threads |-> IF u \in Creators(frames, k)
                                   THEN [frames[u] EXCEPT !.detached = TRUE]
                                   ELSE frames[u]],
     dangling |-> Creators(frames, k) = {} /\ PointedTo(self, frames, k, t)]

\* a deallocated Node is still pointed to: what the program does from here
\* on is undefined, and the model does not follow it
Dangling == \E u \in Threads : th[u].pc = "dangling"

\* the frame t is the code that runs
InlineFrame(t) == ~Dangling /\ InFrame(t)

\* what is left of the frame when its call is over
InlineDone(frames, t, r) ==
    [frames EXCEPT ![t] = [f \in DOMAIN InlineIdle |->
                             IF f \in DOMAIN r THEN r[f]
                             ELSE IF f = "pc" THEN "done" ELSE frames[t][f]]]

\* mp_subscript is lru_subscript itself
lru_subscript_inline(t, key) ==
    /\ th[t].pc = "idle" /\ CanCount
    /\ LET r == lru_subscript(lru, key)
       IN /\ lru' = r.self
          /\ th' = InlineDone(th, t, [op |-> "lru_subscript", key |-> key, ret |-> r.result,
                                      exc |-> IF r.result = NULL THEN "KeyError" ELSE ""])
    /\ UNCHANGED <<alive, lock, cblog>>

\* lru_delete_last from its entry to the call of the callback, or to its
\* end when there is no callback or no last Node: the next state of the LRU
\* and whether the callback is being called
lru_delete_last_enter(self, frames, t) ==
    LET n == self.last
    IN IF n = NULL THEN [self |-> self, frames |-> frames, n |-> NULL, dangling |-> FALSE]
       ELSE IF self.callback # NULL
       THEN [self |-> lru_remove_node(self, n), frames |-> frames, n |-> n,
             dangling |-> FALSE]
       ELSE LET u == Unref(lru_remove_node(self, n), frames, n, t)
            IN [self |-> u.self, frames |-> u.frames, n |-> NULL, dangling |-> u.dangling]

\* mp_ass_subscript is lru_ass_sub itself: up to the call of the callback
\* when the put evicts, to its end otherwise
lru_ass_sub_inline(t, key, value) ==
    /\ th[t].pc = "idle"
    /\ LET node == GET_NODE(lru.dict, key)
           call == [op |-> "lru_ass_sub", key |-> key, value |-> value]
       IN IF value # NULL /\ node # NULL
          THEN LET set == [lru EXCEPT !.node[node].value = value, !.lastput[key] = value]
               IN /\ lru' = lru_add_node_at_head(lru_remove_node(set, node), node)
                  /\ th' = InlineDone(th, t, call)
          ELSE IF value # NULL
          THEN LET put == [lru EXCEPT !.dict = @ \cup {key}, !.lastput[key] = value,
                                      !.node[key] = [value |-> value, prev |-> NULL,
                                                     next |-> NULL]]
                   d == IF lru_length(put) > put.size
                        THEN lru_delete_last_enter(put, th, t)
                        ELSE [self |-> put, frames |-> th, n |-> NULL, dangling |-> FALSE]
               IN IF d.dangling
                  THEN /\ lru' = d.self
                       /\ th' = InlineDone(d.frames, t, call @@ [pc |-> "dangling"])
                  ELSE IF d.n # NULL
                  THEN /\ lru' = d.self
                       /\ th' = InlineDone(d.frames, t, call @@ [pc |-> "callback", n |-> d.n])
                  ELSE /\ lru' = lru_add_node_at_head(d.self, key)
                       /\ th' = InlineDone(d.frames, t, call)
          ELSE IF node = NULL
          THEN /\ lru' = lru
               /\ th' = InlineDone(th, t, call @@ [ret |-> 0 - 1, exc |-> "KeyError"])
          ELSE LET u == Unref(lru_remove_node(lru, node), th, node, t)
               IN /\ lru' = u.self
                  /\ th' = InlineDone(u.frames, t,
                                      call @@ [pc |-> IF u.dangling THEN "dangling" ELSE "done"])
    /\ UNCHANGED <<alive, lock, cblog>>

\* LRU_set_size: the loop up to the first call of the callback, or to its end
\* (the loop does not end once last is NULL while the dict is too large)
RECURSIVE SetSizeLoop_inline(_, _, _, _, _)
SetSizeLoop_inline(self, frames, t, newSize, call) ==
    IF lru_length(self) <= newSize
    THEN [self |-> [self EXCEPT !.size = newSize],
          frames |-> InlineDone(frames, t, call @@ [ret |-> Py_None])]
    ELSE LET d == lru_delete_last_enter(self, frames, t)
         IN IF d.dangling
            THEN [self |-> d.self, frames |-> InlineDone(d.frames, t, call @@ [pc |-> "dangling"])]
            ELSE IF d.n # NULL
            THEN [self |-> d.self,
                  frames |-> InlineDone(d.frames, t, call @@ [pc |-> "callback", n |-> d.n])]
            ELSE IF self.last = NULL
            THEN [self |-> d.self, frames |-> InlineDone(d.frames, t, call @@ [pc |-> "spin"])]
            ELSE SetSizeLoop_inline(d.self, d.frames, t, newSize, call)

LRU_set_size_inline(t, newSize) ==
    /\ th[t].pc = "idle"
    /\ LET call == [op |-> "LRU_set_size", value |-> newSize]
       IN IF newSize <= 0
          THEN /\ lru' = lru
               /\ th' = InlineDone(th, t, call @@ [exc |-> "ValueError"])
          ELSE LET r == SetSizeLoop_inline(lru, th, t, newSize, call)
               IN lru' = r.self /\ th' = r.frames
    /\ UNCHANGED <<alive, lock, cblog>>

\* the callback has returned: lru_delete_last goes on with
\* PUT_NODE(dict, n->key, NULL), its result ignored, and returns; lru_ass_sub
\* then puts its Node at the head and gives up its reference to it, which
\* deallocates the Node if the dict has let go of it; LRU_set_size goes round
\* its loop again
lru_delete_last_return(t) ==
    /\ th[t].pc = "callback"
    /\ LET n == th[t].n
           call == [n |-> NULL]
           u == IF n \in lru.dict THEN Unref(lru, th, n, t)
                ELSE [self |-> lru, frames |-> th, dangling |-> FALSE]
       IN IF u.dangling
          THEN lru' = u.self /\ th' = InlineDone(u.frames, t, call @@ [pc |-> "dangling"])
          ELSE IF th[t].op = "lru_ass_sub"
          THEN IF u.frames[t].detached
               THEN /\ lru' = u.self
                    /\ th' = InlineDone(u.frames, t, call @@ [pc |-> "dangling"])
               ELSE /\ lru' = lru_add_node_at_head(u.self, th[t].key)
                    /\ th' = InlineDone(u.frames, t, call)
          ELSE LET r == SetSizeLoop_inline(u.self, u.frames, t, th[t].value, call)
               IN lru' = r.self /\ th' = r.frames
    /\ UNCHANGED <<alive, lock, cblog>>

\* the call returns to the Python code that made it
Return_inline(t) ==
    /\ th[t].pc = "done"
    /\ th' = [th EXCEPT ![t] = InlineIdle]
    /\ UNCHANGED <<lru, alive, lock, cblog>>

\* Python code, the callback included, looks keys up, assigns and deletes
\* items; the client also resizes
Inline(t) ==
    \/ InlineFrame(t) /\ \E key \in InlineKeys : lru_subscript_inline(t, key)
    \/ InlineFrame(t) /\ \E key \in InlineKeys, value \in {NULL, 1} : lru_ass_sub_inline(t, key, value)
    \/ /\ InlineFrame(t) /\ t = MainThread
       /\ \E newSize \in 0..InlineMaxSize : LRU_set_size_inline(t, newSize)
    \/ InlineFrame(t) /\ lru_delete_last_return(t)
    \/ InlineFrame(t) /\ Return_inline(t)

NextInline == \E t \in Threads : Inline(t)

SpecInline == InitInline /\ [][NextInline]_vars

\* ------------------------------------------------------------ properties
\* the keys of the recency list, most recently used first
Order(self) == Walk(self, self.first, MaxKey + 1)

Range(seq) == {seq[i] : i \in 1..Len(seq)}
Without(seq, x) == SelectSeq(seq, LAMBDA y : y # x)
Front(seq) == SubSeq(seq, 1, Len(seq) - 1)
\* the values of the keys in ks are the same in a and b
SameValues(a, b, ks) == \A k \in ks : a.node[k].value = b.node[k].value
Me == th[MainThread]
Returned(op) == Me.pc = "done" /\ Me.op = op
\* the critical section of op is over (its drain may still be going on)
Acted(op) == Me.pc \in {"purge", "purge_loop", "done"} /\ Me.op = op

\* C1: once an operation has completed (at any time the lock is free), the
\* number of entries, counted in the dict and in the list, is at most the
\* capacity.
C1_SizeWithinCapacity ==
    (alive /\ lock = NULL) =>
        /\ lru_length(lru) <= lru.size
        /\ Len(Order(lru)) <= lru.size

\* a put of a new key into a full cache has completed
C1_Witness ==
    /\ Returned("LRU_ass_sub_lock_purge") /\ Me.value # NULL /\ Me.node = NULL
    /\ lru_length(lru) = lru.size /\ Len(lru.evicted) = 1

\* C2: whenever the lock is free, a key is in the dict iff its Node is linked
\* in the list, no key is twice in the list, and the list is as long as the
\* dict is large.
C2_DictListLockstep ==
    (alive /\ lock = NULL) =>
        /\ Range(Order(lru)) = lru.dict
        /\ Len(Order(lru)) = Cardinality(Range(Order(lru)))
        /\ Len(Order(lru)) = lru_length(lru)

\* an eviction has taken one key out of both structures and put another in
C2_Witness ==
    /\ Acted("LRU_ass_sub_lock_purge") /\ Len(lru.evicted) = 1
    /\ lru.evicted[1][1] \notin lru.dict /\ Me.key \in lru.dict /\ lru_length(lru) >= 2

\* C3: a put of a new key k into a full cache removes exactly the tail as it
\* was, puts k at the head with the value given and keeps the order and the
\* values of the others, the size unchanged; below capacity nothing is
\* removed and the size grows by one.
C3_PutNewKey ==
    [][\A k \in Keys, v \in Vals :
         (LRU_ass_sub_lock_purge(MainThread, k, v) /\ k \notin lru.dict) =>
            LET old == Order(lru)
            IN /\ lru'.node[k].value = v
               /\ IF lru_length(lru) = lru.size
                  THEN /\ Order(lru') = <<k>> \o Front(old)
                       /\ lru'.dict = (lru.dict \ {old[Len(old)]}) \cup {k}
                       /\ lru'.evicted = <<<<old[Len(old)], lru.node[old[Len(old)]].value>>>>
                       /\ lru_length(lru') = lru_length(lru)
                       /\ SameValues(lru, lru', Range(Front(old)))
                  ELSE /\ Order(lru') = <<k>> \o old
                       /\ lru'.dict = lru.dict \cup {k}
                       /\ lru'.evicted = <<>>
                       /\ lru_length(lru') = lru_length(lru) + 1
                       /\ SameValues(lru, lru', lru.dict)]_vars

\* a new key has been put into a full cache of three entries
C3_Witness ==
    /\ Acted("LRU_ass_sub_lock_purge") /\ Me.value # NULL /\ Me.node = NULL
    /\ Len(lru.evicted) = 1 /\ lru_length(lru) = 3 /\ lru.first = Me.key

\* C4: a get that hits moves its key to the head and keeps the order of the
\* others; so in the state it leaves, with the cache full and of capacity 2
\* or more, a put of a new key evicts the old tail, which is not that key.
C4_GetPromotes ==
    /\ [][\A k \in Keys :
            ((LRU_subscript_lock(MainThread, k) \/ \E d \in {NULL} \cup Vals :
                                                      LRU_get(MainThread, k, d))
             /\ k \in lru.dict) =>
               Order(lru') = <<k>> \o Without(Order(lru), k)]_vars
    /\ [](\A k \in Keys :
            ((Returned("LRU_subscript_lock") \/ Returned("LRU_get"))
             /\ Me.key = k /\ Me.node # NULL /\ lru.size >= 2
             /\ lru_length(lru) = lru.size) =>
               \A k2 \in Keys \ lru.dict, v \in Vals :
                  LET after == lru_ass_sub(lru, k2, v).self
                      old == Order(lru)
                  IN /\ k \in after.dict
                     /\ after.evicted = <<<<old[Len(old)], lru.node[old[Len(old)]].value>>>>
                     /\ old[Len(old)] # k
                     /\ Order(after) = <<k2>> \o Front(old))

\* a get has hit in a full cache of three entries
C4_Witness ==
    /\ Returned("LRU_subscript_lock") /\ Me.node # NULL
    /\ lru.first = Me.key /\ lru_length(lru) = 3 /\ lru.size = 3

\* C5: a put on a key the cache holds replaces the value, moves the key to
\* the head, keeps the key set, the size and the order and values of the
\* others, evicts nothing and stages nothing, also in a full cache; and a
\* put that evicted nothing has the callback called for nothing.
C5_PutExistingKey ==
    /\ [][\A k \in Keys, v \in Vals :
            (LRU_ass_sub_lock_purge(MainThread, k, v) /\ k \in lru.dict) =>
               /\ lru'.node[k].value = v
               /\ Order(lru') = <<k>> \o Without(Order(lru), k)
               /\ lru'.dict = lru.dict
               /\ SameValues(lru, lru', lru.dict \ {k})
               /\ lru'.evicted = <<>> /\ lru'.staging_list = <<>>
               /\ lru'.size = lru.size]_vars
    /\ []((Acted("LRU_ass_sub_lock_purge") /\ lru.evicted = <<>>) => cblog = <<>>)

\* a key of a full cache with a callback has been given another value
C5_Witness ==
    /\ Returned("LRU_ass_sub_lock_purge") /\ Me.value # NULL /\ Me.node # NULL
    /\ lru_length(lru) = lru.size /\ lru.size >= 2 /\ lru.callback # NULL
    /\ Me.value = 1 /\ lru.node[Me.key].value = 1

\* C6: a get on a key the cache holds returns the value last put for it and
\* adds one to hits, with misses, size, key set and values unchanged, and it
\* changes nothing but hits when the key is already the head (as it is after
\* a first get); a get on an absent key raises KeyError and changes nothing
\* but misses, which grows by one.
C6_GetCounts ==
    [][\A k \in Keys :
         LRU_subscript_lock(MainThread, k) =>
            IF k \in lru.dict
            THEN /\ Me'.ret = lru.lastput[k] /\ Me'.exc = ""
                 /\ lru'.hits = lru.hits + 1 /\ lru'.misses = lru.misses
                 /\ lru'.dict = lru.dict /\ lru'.lastput = lru.lastput
                 /\ SameValues(lru, lru', lru.dict)
                 /\ (lru.first = k => lru' = [lru EXCEPT !.hits = @ + 1])
            ELSE /\ Me'.ret = NULL /\ Me'.exc = "KeyError"
                 /\ lru' = [lru EXCEPT !.misses = @ + 1]]_vars

\* the second of two gets in a row on the same key has hit
C6_Witness ==
    /\ Returned("LRU_subscript_lock") /\ Me.node # NULL /\ Me.ret = 1
    /\ lru.hits = 2 /\ lru_length(lru) >= 2

\* how often x occurs in seq
Count(seq, x) == Cardinality({i \in 1..Len(seq) : seq[i] = x})
\* the pairs of the Nodes of the keys in ks, in the order of ks
PairsOf(self, ks) == [i \in 1..Len(ks) |-> <<ks[i], self.node[ks[i]].value>>]

\* C7: with a callback configured, every pair evicted by an operation is
\* handed to the callback exactly once, with the key and the value the Node
\* held when it was evicted: no call is made for anything else or while the
\* lock is held, and when the operation returns the calls made are the pairs
\* it evicted, each as often as it was evicted, and nothing is left staged.
C7_CallbackOncePerEviction ==
    /\ \A x \in Range(cblog) : Count(cblog, x) <= Count(lru.evicted, x)
    /\ Me.pc \in {"purge", "purge_loop"} => lock = NULL
    /\ (Me.pc \in {"done", "update_kwargs"} /\ alive /\ lru.callback # NULL) =>
          /\ \A x \in Range(lru.evicted) : Count(cblog, x) = Count(lru.evicted, x)
          /\ lru.staging_list = <<>>

\* an update has evicted two pairs and the callback has been called for both
C7_Witness ==
    /\ Returned("LRU_update") /\ Len(lru.evicted) = 2 /\ Len(cblog) = 2
    /\ lru.evicted[1] # lru.evicted[2]

C9_Resize ==
    [][\A n \in 1..MaxSize :
         LRU_set_size(MainThread, n) =>
            LET old == Order(lru)
            IN IF n < lru_length(lru)
               THEN /\ Order(lru') = SubSeq(old, 1, n)
                    /\ lru'.dict = Range(SubSeq(old, 1, n))
                    /\ lru'.evicted = PairsOf(lru, Reverse(SubSeq(old, n + 1, Len(old))))
                    /\ Len(lru'.evicted) = lru_length(lru) - n
                    /\ SameValues(lru, lru', lru'.dict)
                    /\ lru'.size = n
               ELSE lru' = [lru EXCEPT !.size = n]]_vars

\* a resize to 1 has removed two entries of three
C9_Witness ==
    /\ Acted("LRU_set_size") /\ Me.value = 1 /\ lru.size = 1
    /\ Len(lru.evicted) = 2 /\ Len(Order(lru)) = 1

Consistent(self) ==
    /\ Range(Order(self)) = self.dict
    /\ Len(Order(self)) = Cardinality(self.dict)

C12_DeliveredAtMostOnce ==
    \A x \in Range(cblog) : Count(cblog, x) <= Count(lru.evicted, x)

\* the threads that are inside the loop of lru_purge_staging
Draining == {t \in Threads : th[t].pc \in {"purge_loop", "callback"}}

\* C13: the drains of one LRU run one after the other: while the drain of a
\* thread is under way no other thread is in a drain of its own, and no
\* staged pair is handed to the callback by two drains.
C13_DrainsSerialized ==
    /\ Cardinality(Draining) <= 1
    /\ \A x \in Range(cblog) : Count(cblog, x) <= Count(lru.evicted, x)

\* C14: when the callback has raised for a pair, the drain goes on: the
\* callback is called for every other staged pair as well, all of them leave
\* the staging list, and what the method did under the lock stays as it was
\* (the evicted keys out, the assigned key in with its value, the size as
\* set); no step of the drain touches anything but the staging list.
C14_DrainAfterFailure ==
    /\ [][Me.pc \in {"purge", "purge_loop", "callback"} =>
             [lru' EXCEPT !.staging_list = <<>>] = [lru EXCEPT !.staging_list = <<>>]]_vars
    /\ []((Me.pc = "done" /\ alive /\ lru.callback # NULL /\ Me.exc = "CallbackError") =>
             /\ cblog = Reverse(lru.evicted)
             /\ Len(Me.results) = Len(cblog)
             /\ lru.staging_list = <<>>
             /\ \A i \in 1..Len(cblog) : cblog[i][1] \notin lru.dict
             /\ Me.op = "LRU_ass_sub_lock_purge" =>
                   (Me.key \in lru.dict /\ lru.node[Me.key].value = Me.value)
             /\ Me.op = "LRU_set_size" => lru.size = Me.value
             /\ Consistent(lru) /\ lru_length(lru) <= lru.size)

\* a resize has evicted two pairs; the callback raised for the first of them
\* and was called for the second all the same
C14_Witness ==
    /\ Returned("LRU_set_size") /\ Me.exc = "CallbackError"
    /\ Me.results = <<NULL, Py_None>> /\ Len(cblog) = 2 /\ lru.staging_list = <<>>

\* C15: with one client thread and a callback that calls nothing, the
\* staging list is empty whenever no method is under way (a method has
\* returned, or none has been called yet), whatever the callback setting; so
\* no drain finds pairs that an earlier method has staged.
C15_StagingEmptyAtReturn ==
    /\ Me.pc \in {"idle", "done", "locked"} => lru.staging_list = <<>>
    /\ Me.pc = "purge" => Len(lru.staging_list) <= Len(lru.evicted)
    /\ Me.pc = "idle" => (cblog = <<>> /\ lru.evicted = <<>>)

\* a resize with a callback set has evicted a pair, handed it over and returned
C15_Witness ==
    /\ Returned("LRU_set_size") /\ lru.callback # NULL
    /\ Len(lru.evicted) = 1 /\ Len(cblog) = 1 /\ lru.staging_list = <<>>

\* C16: evictions made while no callback is set (none given to the
\* constructor, or set_callback(None) called since) take the last Node out of
\* the dict and the list, stage nothing and call nothing; a drain that finds
\* no callback at its entry leaves the staging list empty and calls nothing;
\* a pair is staged only while a callback is set and only staged pairs are
\* handed over, so a callback set afterwards is never called for a pair that
\* was evicted while there was none.
C16_NoCallbackNoDelivery ==
    /\ [][(lru.callback = NULL /\ Len(lru'.evicted) > Len(lru.evicted)) =>
             /\ lru'.staging_list = lru.staging_list /\ cblog' = cblog
             /\ Consistent(lru') /\ lru_length(lru') <= lru'.size
             /\ lru_length(lru') < lru_length(lru) + 1
             /\ \A j \in (Len(lru.evicted) + 1)..Len(lru'.evicted) :
                   /\ lru'.evicted[j][1] \in lru.dict
                   /\ lru'.evicted[j][1] \notin lru'.dict
                   /\ lru'.evicted[j][1] \notin Range(Order(lru'))]_vars
    /\ [][\A t \in Threads :
             (th[t].pc = "purge" /\ th'[t].pc # "purge" /\ lru.callback = NULL) =>
                (lru'.staging_list = <<>> /\ cblog' = cblog /\ th'[t].pc = "done")]_vars
    /\ [][Len(lru'.staging_list) > Len(lru.staging_list) => lru.callback # NULL]_vars
    /\ [][(cblog' # cblog /\ cblog' # <<>>) =>
             /\ lru.callback # NULL
             /\ cblog'[Len(cblog')] \in Range(lru.staging_list)]_vars

\* the callback, called for a pair that an assignment has evicted, has
\* called set_callback(None) and then assigned a new key: that assignment
\* has evicted a second pair, staged nothing, and its drain has wiped the
\* pair of the outer drain from the staging list
C16_Witness ==
    /\ th[1].pc = "callback" /\ th[1].op = "LRU_ass_sub_lock_purge"
    /\ th[2].pc = "done" /\ th[2].op = "LRU_ass_sub_lock_purge"
    /\ lru.callback = NULL /\ lru.staging_list = <<>>
    /\ Len(lru.evicted) = 2 /\ cblog = <<lru.evicted[1]>>
    /\ lru.evicted[2][1] \notin lru.dict /\ th[2].key \in lru.dict

\* C17: del L[k] and pop(k) on a key the cache holds take k out of the dict
\* and the list, make the cache one entry smaller, keep the order and the
\* values of the other entries and the capacity, raise nothing, stage
\* nothing and have the callback called for nothing; pop returns the value
\* of k.
C17_DeleteRemovesQuietly ==
    /\ [][\A k \in Keys :
            ((LRU_ass_sub_lock_purge(MainThread, k, NULL)
              \/ \E d \in Defaults : LRU_pop(MainThread, k, d))
             /\ k \in lru.dict) =>
               /\ lru'.dict = lru.dict \ {k}
               /\ Order(lru') = Without(Order(lru), k)
               /\ Consistent(lru')
               /\ lru_length(lru') = lru_length(lru) - 1
               /\ SameValues(lru, lru', lru.dict \ {k})
               /\ lru'.size = lru.size
               /\ lru'.staging_list = <<>> /\ lru'.evicted = <<>> /\ cblog' = cblog
               /\ Me'.exc = ""
               /\ Me'.op = "LRU_pop" => Me'.ret = lru.node[k].value]_vars
    /\ []((Returned("LRU_pop") \/ (Acted("LRU_ass_sub_lock_purge") /\ Me.value = NULL)) =>
             (cblog = <<>> /\ lru.staging_list = <<>>))

\* the middle key of a full cache of three entries with a callback has been
\* deleted
C17_Witness ==
    /\ Returned("LRU_ass_sub_lock_purge") /\ Me.value = NULL /\ Me.node # NULL
    /\ Me.exc = "" /\ lru.callback # NULL /\ lru.size = 3 /\ lru_length(lru) = 2
    /\ Me.key \notin lru.dict /\ cblog = <<>>
    /\ lru.first < Me.key /\ Me.key < lru.last

\* C18: del L[k] on a key the cache does not hold raises KeyError and leaves
\* the LRU as it was: entries, order, capacity, hits, misses and staging
\* list; nothing is called.
C18_DeleteAbsentKey ==
    /\ [][\A k \in Keys :
            (LRU_ass_sub_lock_purge(MainThread, k, NULL) /\ k \notin lru.dict) =>
               /\ Me'.exc = "KeyError" /\ Me'.ret # 0
               /\ lru' = lru /\ cblog' = cblog /\ lock' = NULL]_vars
    /\ [][(Acted("LRU_ass_sub_lock_purge") /\ Me.value = NULL /\ Me.exc = "KeyError") =>
             (lru' = lru \/ Me'.pc = "idle")]_vars
    /\ []((Acted("LRU_ass_sub_lock_purge") /\ Me.value = NULL /\ Me.exc = "KeyError") =>
             (cblog = <<>> /\ lru.staging_list = <<>> /\ Me.key \notin lru.dict))

\* a key that a cache of two entries does not hold has been deleted, after
\* a lookup that hit and one that missed
C18_Witness ==
    /\ Returned("LRU_ass_sub_lock_purge") /\ Me.value = NULL /\ Me.exc = "KeyError"
    /\ lru_length(lru) = 2 /\ lru.hits = 1 /\ lru.misses = 1 /\ lru.callback # NULL

\* C19: on a cache that holds entries popitem(least_recent=True) returns the
\* pair of the last Node and popitem(least_recent=False) that of the first,
\* and removes it; the cache is one entry smaller, the other entries keep
\* their order and values, hits, misses and capacity stay, nothing is staged
\* and nothing is called.
C19_PopitemEnds ==
    /\ [][\A b \in {0, 1} :
            (LRU_popitem(MainThread, b) /\ lru.first # NULL) =>
               LET old == Order(lru)
                   n == IF b = 1 THEN old[Len(old)] ELSE old[1]
               IN /\ n = (IF b = 1 THEN lru.last ELSE lru.first)
                  /\ Me'.tup = <<n, lru.node[n].value>> /\ Me'.exc = ""
                  /\ Order(lru') = (IF b = 1 THEN Front(old) ELSE Tail(old))
                  /\ lru'.dict = lru.dict \ {n}
                  /\ Consistent(lru')
                  /\ lru_length(lru') = lru_length(lru) - 1
                  /\ SameValues(lru, lru', lru.dict \ {n})
                  /\ lru'.hits = lru.hits /\ lru'.misses = lru.misses
                  /\ lru'.size = lru.size
                  /\ lru'.staging_list = <<>> /\ lru'.evicted = <<>>
                  /\ cblog' = cblog /\ lock' = NULL]_vars
    /\ [](Returned("LRU_popitem") => (cblog = <<>> /\ lru.staging_list = <<>>))

\* popitem(least_recent=False) has taken the first of three entries of a
\* cache with a callback, after a lookup
C19_Witness ==
    /\ Returned("LRU_popitem") /\ Me.value = 0 /\ Me.tup # <<>>
    /\ lru_length(lru) = 2 /\ lru.size = 3 /\ lru.callback # NULL
    /\ Me.tup[1] \notin lru.dict /\ lru.hits = 1

C21_ClearEmptiesQuietly ==
    /\ [][LRU_clear(MainThread) =>
             /\ lru'.dict = {} /\ lru_length(lru') = 0
             /\ lru'.first = NULL /\ lru'.last = NULL /\ Order(lru') = <<>>
             /\ \A k \in Keys : lru'.node[k] = FreeNode
             /\ lru'.hits = 0 /\ lru'.misses = 0
             /\ lru'.size = lru.size /\ lru'.callback = lru.callback
             /\ lru'.staging_list = <<>> /\ lru'.evicted = <<>>
             /\ cblog' = cblog /\ lock' = NULL]_vars
    /\ [](Acted("LRU_clear") =>
             /\ cblog = <<>> /\ lru.staging_list = <<>> /\ lru.dict = {}
             /\ lru.hits = 0 /\ lru.misses = 0)

\* a cache of capacity 3 with a callback, which held entries, has been
\* cleared
C21_Witness ==
    /\ Returned("LRU_clear") /\ Me.node # NULL /\ lru.callback # NULL
    /\ lru.size = 3 /\ lru.dict = {} /\ lru.first = NULL /\ cblog = <<>>

DocKeyList == [i \in 1..Len(Me.tup) |-> Me.tup[i] - 1]
\* keys() has returned after the five assignments of the example to LRU(3)
DocExampleDone ==
    /\ Returned("LRU_keys") /\ lru.size = DocSize /\ DocNext > DocLast

C24_ContainsIsPure ==
    [][\A k \in Keys :
         LRU_contains_key(MainThread, k) =>
            /\ Me'.ret = (IF k \in lru.dict THEN Py_True ELSE Py_False)
            /\ (Me'.ret = Py_True) = (k \in Range(Order(lru)))
            /\ Me'.exc = ""
            /\ lru' = lru /\ Order(lru') = Order(lru)
            /\ lru'.hits = lru.hits /\ lru'.misses = lru.misses
            /\ cblog' = cblog /\ lock' = NULL]_vars

\* the least recently used key of a full cache has been found by a
\* membership test and is still the last of the list, with one hit and one
\* miss counted before
C24_Witness ==
    /\ Returned("LRU_contains_key") /\ Me.ret = Py_True /\ Me.key = lru.last
    /\ lru_length(lru) = 3 /\ lru.size = 3 /\ lru.hits = 1 /\ lru.misses = 1

\* C25: peek_first_item returns the pair of the first Node (the most
\* recently used entry, the head of items()) and peek_last_item the pair of
\* the last Node (the entry the next eviction takes), or None when the
\* cache is empty, and neither changes anything of the LRU: entries, order,
\* hits, misses.
C25_PeekIsPure ==
    [][(LRU_peek_first_item(MainThread) \/ LRU_peek_last_item(MainThread)) =>
         /\ lru' = lru /\ Order(lru') = Order(lru)
         /\ lru'.hits = lru.hits /\ lru'.misses = lru.misses
         /\ cblog' = cblog /\ lock' = NULL
         /\ Me'.exc = ""
         /\ LET items == collect_items(lru)
            IN IF lru.dict = {}
               THEN Me'.ret = Py_None /\ Me'.tup = <<>>
               ELSE /\ Me'.op = "LRU_peek_first_item" => Me'.tup = items[1]
                    /\ Me'.op = "LRU_peek_last_item" =>
                          /\ Me'.tup = items[Len(items)]
                          /\ lru_delete_last(lru).evicted = <<Me'.tup>>
                    /\ Me'.tup[2] = lru.lastput[Me'.tup[1]]]_vars

\* peek_last_item has returned the pair of the last of three entries, after
\* a lookup that hit
C25_Witness ==
    /\ Returned("LRU_peek_last_item") /\ Me.tup # <<>> /\ Me.tup[1] = lru.last
    /\ lru_length(lru) = 3 /\ lru.first # lru.last /\ lru.hits = 1

\* the keys that have been assigned: those the cache holds a value for and
\* those of the pairs evicted since the client threads were last all idle
KeysPut ==
    {k \in Keys : lru.lastput[k] # NULL} \cup {lru.evicted[i][1] : i \in 1..Len(lru.evicted)}

GuardDeadlock ==
    \E t \in Threads :
       /\ th[t].pc = "PyThread_acquire_lock"
       /\ lock \in Threads \ {t} /\ th[lock].pc = "locked"

\* C28: no reachable state is a deadlock on the lock: every thread that has
\* called a method can go on until the method returns.
C28_NoGuardDeadlock == ~GuardDeadlock

\* C27: the critical sections exclude each other, and an update and an
\* items() called at the same time by two threads behave as if one had
\* run after the other: when both have returned, items() has returned the
\* entries as they were before the update or as they are after it.
C27_Linearizable ==
    /\ Cardinality({t \in Threads : th[t].pc \in {"locked", "update_locked"}}) <= 1
    /\ \A t \in Threads : th[t].pc \in {"locked", "update_locked"} <=> lock = t
    /\ \A t \in Threads \ {MainThread} :
          (Returned("LRU_update") /\ th[t].pc = "done" /\ th[t].op = "LRU_items") =>
             th[t].lst \in {collect_items(LinStart(lru.size, lru.callback)),
                            collect_items(lru)}

C30_Setdefault ==
    [][\A k \in Keys, d \in Defaults :
         LRU_setdefault(MainThread, k, d) =>
            LET old == Order(lru)
                v == IF d = NULL THEN Py_None ELSE d
            IN IF k \in lru.dict
               THEN /\ Me'.ret = lru.node[k].value /\ Me'.ret = lru.lastput[k]
                    /\ lru'.node[k].value = lru.node[k].value
                    /\ lru'.dict = lru.dict /\ lru_length(lru') = lru_length(lru)
                    /\ SameValues(lru, lru', lru.dict)
                    /\ lru'.evicted = <<>> /\ lru'.staging_list = <<>>
                    /\ Me'.exc = ""
               ELSE /\ Me'.ret = v /\ Me'.exc = ""
                    /\ lru'.node[k].value = v /\ lru'.first = k
                    /\ IF lru_length(lru) = lru.size
                       THEN /\ Order(lru') = <<k>> \o Front(old)
                            /\ lru'.dict = (lru.dict \ {old[Len(old)]}) \cup {k}
                            /\ lru'.evicted =
                                  <<<<old[Len(old)], lru.node[old[Len(old)]].value>>>>
                            /\ SameValues(lru, lru', Range(Front(old)))
                       ELSE /\ Order(lru') = <<k>> \o old
                            /\ lru'.dict = lru.dict \cup {k}
                            /\ lru'.evicted = <<>>
                            /\ SameValues(lru, lru', lru.dict)]_vars

\* setdefault without a default has put a new key into a full cache of
\* three entries and returned None
C30_Witness ==
    /\ Returned("LRU_setdefault") /\ Me.value = NULL /\ Me.ret = Py_None
    /\ Me.node = NULL /\ lru.first = Me.key /\ lru.node[Me.key].value = Py_None
    /\ Len(lru.evicted) = 1 /\ lru_length(lru) = 3

\* C31: on a key the cache does not hold, pop(k, d) and get(k, d) return d
\* without an exception, do not insert k and leave the entries, their values
\* and the recency order as they were, while pop(k) without a default raises
\* KeyError; on a key the cache holds, pop(k, d) returns the value of k and
\* removes k, leaving the other entries in their order.
C31_DefaultOnAbsentKey ==
    /\ [][\A k \in Keys, d \in Vals :
            (LRU_pop(MainThread, k, d) /\ k \notin lru.dict) =>
               /\ Me'.ret = d /\ Me'.exc = ""
               /\ lru'.dict = lru.dict /\ Order(lru') = Order(lru)
               /\ SameValues(lru, lru', lru.dict)
               /\ lru'.staging_list = <<>>]_vars
    /\ [][\A k \in Keys, d \in Vals :
            (LRU_get(MainThread, k, d) /\ k \notin lru.dict) =>
               /\ Me'.ret = d /\ Me'.exc = ""
               /\ lru'.dict = lru.dict /\ Order(lru') = Order(lru)
               /\ SameValues(lru, lru', lru.dict)
               /\ lru'.staging_list = <<>>]_vars
    /\ [][\A k \in Keys :
            (LRU_pop(MainThread, k, NULL) /\ k \notin lru.dict) =>
               /\ Me'.ret = NULL /\ Me'.exc = "KeyError"
               /\ lru'.dict = lru.dict /\ Order(lru') = Order(lru)]_vars
    /\ [][\A k \in Keys, d \in Defaults :
            (LRU_pop(MainThread, k, d) /\ k \in lru.dict) =>
               /\ Me'.ret = lru.node[k].value /\ Me'.exc = ""
               /\ lru'.dict = lru.dict \ {k}
               /\ Order(lru') = Without(Order(lru), k)
               /\ SameValues(lru, lru', lru.dict \ {k})
               /\ lru'.staging_list = <<>>]_vars

\* pop with a default has returned the default for a key that a cache of
\* two entries does not hold
C31_Witness ==
    /\ Returned("LRU_pop") /\ Me.value \in Vals /\ Me.ret = Me.value
    /\ Me.node = NULL /\ Me.key \notin lru.dict /\ lru_length(lru) = 2

\* the keys of the list from Node n back, following prev (at most fuel Nodes)
RECURSIVE WalkBack(_, _, _)
WalkBack(self, n, fuel) ==
    IF n = NULL \/ fuel = 0 THEN <<>>
    ELSE <<n>> \o WalkBack(self, self.node[n].prev, fuel - 1)

NoRepeat(seq) == \A i, j \in 1..Len(seq) : seq[i] = seq[j] => i = j

\* the list of self is well formed
WellFormed(self) ==
    LET fwd == Walk(self, self.first, MaxKey + 1)
        bwd == WalkBack(self, self.last, MaxKey + 1)
    IN /\ NoRepeat(fwd) /\ NoRepeat(bwd)
       /\ Len(fwd) <= MaxKey /\ Len(bwd) <= MaxKey
       /\ self.first # NULL => self.node[self.first].prev = NULL
       /\ self.last # NULL => self.node[self.last].next = NULL
       /\ (self.first = NULL) <=> (self.last = NULL)
       /\ (self.first = NULL) <=> (self.dict = {})
       /\ bwd = Reverse(fwd)
       /\ \A e \in Range(fwd) :
             self.node[e].next # NULL => self.node[self.node[e].next].prev = e

\* C32: once an operation has completed (at any time the lock is free) the
\* recency list is well formed: following next from first, or prev from
\* last, never meets a Node twice; first has no prev and last no next; first
\* is NULL iff last is NULL iff the cache is empty; the Nodes met from last
\* following prev are those met from first following next, in reverse
\* order; and e.next.prev = e for every linked Node e that has a next.
C32_ListWellFormed ==
    (alive /\ lock = NULL) => WellFormed(lru)

\* a lookup has moved the middle Node of a list of three to the head
C32_Witness ==
    /\ Returned("LRU_subscript_lock") /\ Me.ret # NULL
    /\ Len(Order(lru)) = 3 /\ lru.first = Me.key
    /\ lru.node[lru.last].prev # Me.key
    /\ lru.node[lru.node[lru.first].next].next = lru.last

\* the dict and the list of self hold the same keys, each once in the list
Agree(self) ==
    /\ Range(Order(self)) = self.dict
    /\ Len(Order(self)) = lru_length(self)

\* a put or a resize of the client is over
ClientCallOver ==
    th[MainThread].pc = "done" /\ th[MainThread].op \in {"lru_ass_sub", "LRU_set_size"}

\* C33 (first part): in _lru.c, whenever the callback is running, the dict
\* and the list hold the same keys.
C33_CallbackSeesAgreement ==
    \A t \in Threads : th[t].pc = "callback" => Agree(lru)

\* C33 (second part): in _lru.c, when a put or a resize of the client is
\* over, the dict and the list hold the same keys, whatever the callback has
\* looked up, put or deleted meanwhile.
C33_AgreementAfterReentry == ClientCallOver => Agree(lru)

\* C33 (third part): in _lru.c, when a put or a resize of the client is
\* over, there are no more entries than the capacity, whatever the callback
\* has looked up, put or deleted meanwhile.
C33_WithinCapacity == ClientCallOver => lru_length(lru) <= lru.size

\* C33: in _lru.c the callback never sees a key that is in the dict and not
\* in the list or in the list and not in the dict, and a put or resize whose
\* callback has called get, put or delete leaves the dict and the list in
\* agreement and within the capacity.
C33_InlineCallbackSafe ==
    /\ C33_CallbackSeesAgreement
    /\ C33_AgreementAfterReentry
    /\ C33_WithinCapacity

\* in _lru.c no Node is deallocated while the list or a frame points to it
C33_NoDanglingNode == ~Dangling

\* C34 (first part): no frame of the client thread waits for the lock while
\* a frame of the same thread holds it.
C34_NoSelfAcquire ==
    \A t \in Threads : th[t].pc = "PyThread_acquire_lock" => lock = NULL

\* C34 (second part): a method holds the lock only inside its critical
\* section; when it drains, has returned, or has raised (KeyError of popitem
\* on an empty cache and of pop on a missing key, TypeError of set_callback)
\* it has released the lock.
C34_GuardReleasedOnReturn ==
    \A t \in Threads :
       /\ lock = t => th[t].pc \in {"locked", "update_locked"}
       /\ th[t].pc \in {"idle", "update_kwargs", "purge", "purge_loop", "callback", "done"}
             => lock # t

\* C34: in lru.c no thread asks for the lock while it holds it, and every
\* method has released the lock on every path on which it returns.
C34_GuardNotReentered ==
    /\ C34_NoSelfAcquire
    /\ C34_GuardReleasedOnReturn

\* popitem on an empty cache has raised KeyError
C34_ErrorPathTaken ==
    /\ Returned("LRU_popitem") /\ Me.exc = "KeyError" /\ lru_length(lru) = 0

\* the keys of the pairs of d
KeysIn(d) == {d[i][1] : i \in 1..Len(d)}

\* every pair of d is an entry of self
HoldsPairs(self, d) ==
    \A i \in 1..Len(d) : d[i][1] \in self.dict /\ self.node[d[i][1]].value = d[i][2]

\* C35 (positional dict): when update(arg) has gone through arg, and the
\* keys of arg that were new did not exceed the free capacity, every pair of
\* arg is an entry and no entry was lost.
C35_UpdatePutsArg ==
    [][\A arg \in DictArgs :
         (LRU_update_arg(MainThread, arg)
            /\ Cardinality(KeysIn(arg) \ lru.dict) <= lru.size - lru_length(lru)) =>
               /\ HoldsPairs(lru', arg)
               /\ lru.dict \subseteq lru'.dict]_vars

\* C35 (keyword arguments): when update(arg, **kwargs) has gone through
\* kwargs, and the keys of kwargs that were new did not exceed the free
\* capacity, every pair of kwargs is an entry and no entry was lost, those
\* of arg included.
C35_UpdatePutsKwargs ==
    [][\A kwargs \in DictArgs :
         (LRU_update_kwargs(MainThread, kwargs)
            /\ Cardinality(KeysIn(kwargs) \ lru.dict) <= lru.size - lru_length(lru)) =>
               /\ HoldsPairs(lru', kwargs)
               /\ lru.dict \subseteq lru'.dict]_vars

\* C35: update(mapping, **kwargs) puts every pair of the mapping and every
\* pair of the keyword arguments: when their keys fit into the free
\* capacity, all of them are entries with their values afterwards.
C35_UpdatePutsEveryPair ==
    /\ C35_UpdatePutsArg
    /\ C35_UpdatePutsKwargs

\* C35 without a positional dict: update(**kwargs) puts every pair of
\* kwargs.
C35_UpdatePutsKwargsAlone ==
    [][\A kwargs \in DictArgs :
         (LRU_update_kwargs(MainThread, kwargs) /\ Me.pos = 0
            /\ Cardinality(KeysIn(kwargs) \ lru.dict) <= lru.size - lru_length(lru)) =>
               /\ HoldsPairs(lru', kwargs)
               /\ lru.dict \subseteq lru'.dict]_vars

\* the step is a lookup of key k: L[k], get, setdefault or pop
Lookup(k) ==
    \/ LRU_subscript_lock(MainThread, k)
    \/ \E d \in Defaults : LRU_get(MainThread, k, d)
    \/ \E d \in Defaults : LRU_setdefault(MainThread, k, d)
    \/ \E d \in Defaults : LRU_pop(MainThread, k, d)

\* C36: a lookup with L[k], get, setdefault or pop adds one to hits when the
\* cache holds k and one to misses when it does not, and leaves the other
\* counter as it was; no other step changes hits or misses, except clear,
\* which sets them to 0: not assignment, deletion, popitem, has_key,
\* peek_first_item, peek_last_item, keys, values, items, set_size,
\* set_callback, get_stats, nor the drain.  So hits + misses is the number
\* of lookups since the LRU was made or last cleared.
C36_OnlyLookupsCount ==
    /\ [][\A k \in Keys :
            Lookup(k) =>
               IF k \in lru.dict
               THEN lru'.hits = lru.hits + 1 /\ lru'.misses = lru.misses
               ELSE lru'.misses = lru.misses + 1 /\ lru'.hits = lru.hits]_vars
    /\ [][(~(\E k \in Keys : Lookup(k)) /\ ~LRU_clear(MainThread)) =>
             (lru'.hits = lru.hits /\ lru'.misses = lru.misses)]_vars

\* pop with a default has missed after one hit, and the popitem, has_key
\* and keys that may have come before have counted nothing
C36_Witness ==
    /\ Returned("LRU_pop") /\ Me.node = NULL /\ Me.value # NULL
    /\ lru.hits = 1 /\ lru.misses = 1

====
